---- MODULE Spec2Model ----
(***************************************************************************)
(* Matching and notification engine of umbral (src/umbral/matching/engine.py *)
(* with the repositories, the bot's send_listing_notification and the       *)
(* run_matching script).                                                    *)
(*                                                                          *)
(* Numbers.  Python floats are modelled in fixed point:                     *)
(*   - scores, weights, similarities: thousandths (0.5 is 500);             *)
(*   - final scores and the threshold: ten-thousandths (0.85 is 8500),      *)
(*     so that 0.6*similarity + 0.4*weighted is the exact integer           *)
(*     6*similarity + 4*weighted;                                           *)
(*   - vector components are integers of absolute value at most 12; the    *)
(*     norms and the cosine are floats of 11 significant bits.              *)
(* Optional numeric fields use None (-1) for Python's None.                 *)
(***************************************************************************)
EXTENDS Integers, Sequences, FiniteSets, TLC

(***************************************************************************)
(* Bounds of the model.                                                     *)
(***************************************************************************)
MaxCycles == 2
MaxFaults == 1
NumListings == 12
MaxComponent == 4
MaxCallbacks == 3
ConcurrentCycles == 2
ProviderCalls == 4

(***************************************************************************)
(* Program constants.                                                       *)
(***************************************************************************)
similarity_threshold == 8500
MatchLimit == 5
feedback_learning_rate == 100

None == 0 - 1
Scale == 10 * 10 * 10
NeutralScore == Scale \div 2

(***************************************************************************)
(* Python values that may be None, a list of numbers, a string (a sequence  *)
(* of JSON tokens), a number or an empty dict.                              *)
(***************************************************************************)
PyNone == [tag |-> "None", list |-> <<>>, text |-> <<>>, num |-> 0]
PyList(v) == [tag |-> "list", list |-> v, text |-> <<>>, num |-> 0]
PyStr(t) == [tag |-> "str", list |-> <<>>, text |-> t, num |-> 0]
PyNum(n) == [tag |-> "num", list |-> <<>>, text |-> <<>>, num |-> n]
PyDict == [tag |-> "dict", list |-> <<>>, text |-> <<>>, num |-> 0]

Truthy(v) ==
    CASE v.tag = "None" -> FALSE
      [] v.tag = "list" -> Len(v.list) > 0
      [] v.tag = "str" -> Len(v.text) > 0
      [] v.tag = "num" -> v.num # 0
      [] OTHER -> FALSE

(***************************************************************************)
(* json.loads on a token sequence: a number, null, {} or a list of numbers; *)
(* anything else raises JSONDecodeError (ok = FALSE).                       *)
(***************************************************************************)
NumVal == ("-4" :> (0 - 4)) @@ ("-3" :> (0 - 3)) @@ ("0" :> 0) @@ ("1" :> 1)
          @@ ("3" :> 3) @@ ("4" :> 4)

JsonListBody(t) ==
    LET n == Len(t) - 2
    IN  [ok |-> \/ n = 0
                \/ /\ n % 2 = 1
                   /\ \A i \in 1..n : IF i % 2 = 1 THEN t[i + 1] \in DOMAIN NumVal
                                                   ELSE t[i + 1] = ",",
         val |-> IF n = 0 THEN PyList(<<>>)
                 ELSE PyList([k \in 1..((n + 1) \div 2) |->
                          IF t[2 * k] \in DOMAIN NumVal THEN NumVal[t[2 * k]] ELSE 0])]

json_loads(t) ==
    IF Len(t) = 0 THEN [ok |-> FALSE, val |-> PyNone]
    ELSE IF Len(t) = 1 THEN
        IF t[1] \in DOMAIN NumVal THEN [ok |-> TRUE, val |-> PyNum(NumVal[t[1]])]
        ELSE IF t[1] = "null" THEN [ok |-> TRUE, val |-> PyNone]
        ELSE [ok |-> FALSE, val |-> PyNone]
    ELSE IF t = <<"{", "}">> THEN [ok |-> TRUE, val |-> PyDict]
    ELSE IF t[1] = "[" /\ t[Len(t)] = "]" THEN
        IF JsonListBody(t).ok THEN [ok |-> TRUE, val |-> JsonListBody(t).val]
        ELSE [ok |-> FALSE, val |-> PyNone]
    ELSE [ok |-> FALSE, val |-> PyNone]

(***************************************************************************)
(* Arithmetic helpers.                                                      *)
(***************************************************************************)
MinOf(a, b) == IF a < b THEN a ELSE b
MaxOf(a, b) == IF a > b THEN a ELSE b

RECURSIVE SeqSum(_)
SeqSum(s) == IF s = <<>> THEN 0 ELSE s[1] + SeqSum(Tail(s))

\* largest r in lo..hi with r*r <= x
RECURSIVE SqrtSearch(_, _, _)
SqrtSearch(x, lo, hi) ==
    IF lo >= hi THEN lo
    ELSE LET mid == (lo + hi + 1) \div 2
         IN  IF mid * mid <= x THEN SqrtSearch(x, mid, hi)
             ELSE SqrtSearch(x, lo, mid - 1)

\* a / b for b > 0, rounded to nearest, sign of a kept
DivRound(a, b) ==
    IF a >= 0 THEN (2 * a + b) \div (2 * b)
    ELSE 0 - ((2 * (0 - a) + b) \div (2 * b))

(***************************************************************************)
(* Float arithmetic.  A Python float carries 53 significant bits and every  *)
(* operation rounds its exact result to the nearest float, ties to even.    *)
(* The model's float carries 11 significant bits: it is an integer number   *)
(* of units of 1/One, spaced by 1 below 1.0, by 2 from 1.0, by 4 from 2.0   *)
(* and so on, so that the integers the vectors hold are floats.  Fl(a, b)   *)
(* is the float nearest to a / b, PySqrt(n) the float nearest to the square *)
(* root of the integer n.                                                   *)
(***************************************************************************)
One == 2 ^ 10

Abs(x) == IF x < 0 THEN 0 - x ELSE x

RECURSIVE Spacing(_)
Spacing(x) == IF Abs(x) < One THEN 1 ELSE 2 * Spacing(Abs(x) \div 2)

\* a / b for a >= 0 and b > 0, rounded to nearest, ties to even
RoundHalfEven(a, b) ==
    LET q == a \div b
        r == a % b
    IN  IF 2 * r > b \/ (2 * r = b /\ q % 2 = 1) THEN q + 1 ELSE q

Fl(a, b) ==
    LET g == Spacing(Abs(a) \div b)
        mag == g * RoundHalfEven(Abs(a), b * g)
    IN  IF a < 0 THEN 0 - mag ELSE mag

\* math.sqrt of the integer n
PySqrt(n) ==
    LET g == Spacing(SqrtSearch(n * One * One, 0, MinOf(n * One * One, 40000)))
        x == (n * One * One) \div (g * g)
        r == SqrtSearch(x, 0, MinOf(x, 40000))
    IN  g * (IF x - r * r > r THEN r + 1 ELSE r)

(***************************************************************************)
(* EmbeddingGenerator.cosine_similarity: zip stops at the shorter vector,   *)
(* the norms run over each whole vector.  The components are integers, so   *)
(* the sums are exact; the two roots, their product and the quotient are    *)
(* rounded.  Result in units of 1/One.                                      *)
(***************************************************************************)
cosine_similarity(vec1, vec2) ==
    LET m == MinOf(Len(vec1), Len(vec2))
        dot_product == SeqSum([i \in 1..m |-> vec1[i] * vec2[i]])
        norm1 == PySqrt(SeqSum([i \in 1..Len(vec1) |-> vec1[i] * vec1[i]]))
        norm2 == PySqrt(SeqSum([i \in 1..Len(vec2) |-> vec2[i] * vec2[i]]))
        norms == Fl(norm1 * norm2, One)
    IN  IF norm1 = 0 \/ norm2 = 0 THEN 0
        ELSE Fl(dot_product * One * One, norms)

\* the cosine clamped without the rescaling
Rescale_Unscaled(similarity) == MaxOf(0, MinOf(One, similarity))

\* max(0.0, min(1.0, (similarity + 1) / 2)), in units of 1/One
Rescale(similarity) == MaxOf(0, MinOf(One, Fl(Fl(similarity + One, 1), 2)))

\* a float between 0.0 and 1.0 read in thousandths
Thousandths(x) == RoundHalfEven(x * Scale, One)

(***************************************************************************)
(* MatchingEngine._calculate_similarity, in thousandths.                    *)
(***************************************************************************)
ListingVector(listing) ==
    IF Truthy(listing.embedding_vector) THEN listing.embedding_vector
    ELSE listing.vibe_embedding

calculate_similarity(listing, preference_vector) ==
    IF ~Truthy(preference_vector) THEN NeutralScore
    ELSE LET raw_vector == ListingVector(listing)
         IN  IF ~Truthy(raw_vector) THEN NeutralScore
             ELSE IF raw_vector.tag = "str" /\ ~json_loads(raw_vector.text).ok
                  THEN NeutralScore
             ELSE LET listing_vector ==
                          IF raw_vector.tag = "str"
                          THEN json_loads(raw_vector.text).val
                          ELSE raw_vector
                  IN  IF preference_vector.tag # "list" \/ listing_vector.tag # "list"
                      THEN NeutralScore
                      ELSE Thousandths(Rescale(cosine_similarity(
                               preference_vector.list, listing_vector.list)))

(***************************************************************************)
(* MatchingEngine._calculate_weighted_score, in thousandths.  to_float maps *)
(* a missing value, and one float() rejects, to 0.5; a zero total weight    *)
(* gives 0.5.                                                               *)
(***************************************************************************)
ScoreKeys == <<"quietness", "luminosity", "connectivity", "wfh_suitability",
               "modernity", "green_spaces">>

\* a stored value that float() rejects (ValueError, TypeError)
Malformed == 0 - 2

to_float(val) == IF val = None \/ val = Malformed THEN NeutralScore ELSE val

calculate_weighted_score(listing, soft_prefs) ==
    LET scores == listing.scores
        score_weights == [i \in 1..Len(ScoreKeys) |->
                             [s |-> to_float(scores[ScoreKeys[i]]),
                              w |-> to_float(soft_prefs[ScoreKeys[i]])]]
        total_weight == SeqSum([i \in 1..Len(ScoreKeys) |-> score_weights[i].w])
        weighted_sum == SeqSum([i \in 1..Len(ScoreKeys) |->
                                   score_weights[i].s * score_weights[i].w])
    IN  IF total_weight = 0 THEN NeutralScore
        ELSE DivRound(weighted_sum, total_weight)

\* the similarity alone as the final score
FinalScore_SimilarityOnly(similarity, weighted) == similarity * 10

\* final = similarity * 0.6 + weighted * 0.4, in ten-thousandths
FinalScore(similarity, weighted) == similarity * 6 + weighted * 4

(***************************************************************************)
(* AnalyzedListingRepository.search_by_filters.  A table row carries its    *)
(* whole raw_listings row in the field raw; the select list embeds only     *)
(* operation_type and features of the raw row (url, title, images and       *)
(* description are not modelled), so the returned dict has no parking       *)
(* count.  Rows come back by analyzed_at descending, at most limit of them. *)
(***************************************************************************)
SelectRow(row) ==
    [id |-> row.id, price_usd |-> row.price_usd, rooms |-> row.rooms,
     neighborhood |-> row.neighborhood, analyzed_at |-> row.analyzed_at,
     scores |-> row.scores, embedding_vector |-> row.embedding_vector,
     vibe_embedding |-> row.vibe_embedding,
     raw_listings |-> [operation_type |-> row.raw.operation_type,
                       features |-> row.raw.features]]

CoarseFilter(row, neighborhoods, min_price, max_price, min_rooms, max_rooms) ==
    /\ neighborhoods # {} => row.neighborhood \in neighborhoods
    /\ min_price # None => row.price_usd >= min_price
    /\ max_price # None => row.price_usd <= max_price
    /\ min_rooms # None => row.rooms >= min_rooms
    /\ max_rooms # None => row.rooms <= max_rooms

RECURSIVE OrderByAnalyzedAtDesc(_)
OrderByAnalyzedAtDesc(rows) ==
    IF rows = {} THEN <<>>
    ELSE LET newest == CHOOSE r \in rows :
                           \A q \in rows : q.analyzed_at <= r.analyzed_at
         IN  <<newest>> \o OrderByAnalyzedAtDesc(rows \ {newest})

\* the slice forgotten
Take_All(s, n) == s

Take(s, n) == SubSeq(s, 1, MinOf(Len(s), n))

search_by_filters(table, neighborhoods, min_price, max_price, min_rooms, max_rooms, limit) ==
    LET hits == {r \in table : CoarseFilter(r, neighborhoods, min_price,
                                            max_price, min_rooms, max_rooms)}
        ordered == OrderByAnalyzedAtDesc(hits)
    IN  [i \in 1..MinOf(Len(ordered), limit) |-> SelectRow(ordered[i])]

\* was_sent answering that nothing was sent
was_sent_Never(sent, user_id, listing_id) == FALSE

(***************************************************************************)
(* NotificationRepository.was_sent over the sent_notifications table.       *)
(***************************************************************************)
was_sent(sent, user_id, listing_id) == <<user_id, listing_id>> \in sent

(***************************************************************************)
(* find_matches_for_user, step 2: the checks after the was_sent check.      *)
(* listing.get("parking_spaces") reads the key of the returned dict.        *)
(***************************************************************************)
DictGetParking(listing) ==
    IF "parking_spaces" \in DOMAIN listing THEN listing["parking_spaces"] ELSE None

PassesRequirements(listing, hard) ==
    LET raw == listing.raw_listings
        features == raw.features
        parking == DictGetParking(listing)
    IN  /\ raw.operation_type = hard.operation_type
        /\ ~(hard.requires_balcony /\ ~features.has_balcony)
        /\ ~(hard.requires_pets_allowed /\ ~features.is_pet_friendly)
        /\ ~(hard.requires_furnished /\ ~features.is_furnished)
        /\ ~(hard.requires_parking /\ (parking = None \/ parking = 0))

FilterCandidates(listings, sent, user_id, hard) ==
    LET Keep(listing) == /\ ~was_sent(sent, user_id, listing.id)
                         /\ PassesRequirements(listing, hard)
    IN  SelectSeq(listings, Keep)

(***************************************************************************)
(* find_matches_for_user, step 3: scoring, the stable descending sort, the  *)
(* threshold and the cut to limit.                                          *)
(***************************************************************************)
ScoreListing(listing, preference_vector, soft) ==
    LET similarity == calculate_similarity(listing, preference_vector)
        weighted == calculate_weighted_score(listing, soft)
    IN  [listing_id |-> listing.id, listing_data |-> listing,
         similarity_score |-> similarity, weighted_score |-> weighted,
         final_score |-> FinalScore(similarity, weighted)]

InsertDesc(acc, m) ==
    LET k == Cardinality({i \in 1..Len(acc) : acc[i].final_score >= m.final_score})
    IN  SubSeq(acc, 1, k) \o <<m>> \o SubSeq(acc, k + 1, Len(acc))

RECURSIVE SortInto(_, _)
SortInto(acc, rest) ==
    IF rest = <<>> THEN acc ELSE SortInto(InsertDesc(acc, rest[1]), Tail(rest))

SortByFinalScoreDesc(matches) == SortInto(<<>>, matches)

\* the threshold test made strict
AboveThreshold_Strict(matches) ==
    LET Keep(m) == m.final_score > similarity_threshold
    IN  SelectSeq(matches, Keep)

AboveThreshold(matches) ==
    LET Keep(m) == m.final_score >= similarity_threshold
    IN  SelectSeq(matches, Keep)

RankMatches(results, preference_vector, soft) ==
    AboveThreshold(SortByFinalScoreDesc(
        [i \in 1..Len(results) |-> ScoreListing(results[i], preference_vector, soft)]))

\* the part of find_matches_for_user that follows the candidate fetch
MatchCandidates(listings, sent, user_id, preferences, preference_vector, limit) ==
    LET results == FilterCandidates(listings, sent, user_id, preferences.hard_filters)
    IN  Take(RankMatches(results, preference_vector, preferences.soft_preferences),
             limit)

find_matches_for_user(table, sent, user_id, preferences, preference_vector, limit) ==
    LET hard == preferences.hard_filters
        listings == search_by_filters(table, hard.neighborhoods, hard.min_price_usd,
                                      hard.max_price_usd, hard.min_rooms,
                                      hard.max_rooms, limit * 2)
    IN  MatchCandidates(listings, sent, user_id, preferences, preference_vector, limit)

(***************************************************************************)
(* process_new_listings, the per-user preamble: HardFilters and            *)
(* SoftPreferences are built from the stored dicts, the keys a dict lacks   *)
(* taking the model defaults; a string preference vector is parsed, a       *)
(* JSONDecodeError turning it into None.                                    *)
(***************************************************************************)
HardDefaults ==
    [min_price_usd |-> None, max_price_usd |-> None, neighborhoods |-> {},
     min_rooms |-> None, max_rooms |-> None, operation_type |-> "alquiler",
     requires_balcony |-> FALSE, requires_parking |-> FALSE,
     requires_pets_allowed |-> FALSE, requires_furnished |-> FALSE]

SoftDefaults == [k \in {ScoreKeys[i] : i \in 1..Len(ScoreKeys)} |-> NeutralScore]

FillDefaults(dict, defaults) ==
    [k \in DOMAIN defaults |-> IF k \in DOMAIN dict THEN dict[k] ELSE defaults[k]]

RebuildPreferences(user) ==
    [hard_filters |-> FillDefaults(user.preferences.hard_filters, HardDefaults),
     soft_preferences |-> FillDefaults(user.preferences.soft_preferences, SoftDefaults)]

ParsePreferenceVector(preference_vector) ==
    IF Truthy(preference_vector) /\ preference_vector.tag = "str"
    THEN IF json_loads(preference_vector.text).ok
         THEN json_loads(preference_vector.text).val
         ELSE PyNone
    ELSE preference_vector

UserMatches(table, sent, user) ==
    find_matches_for_user(table, sent, user.id, RebuildPreferences(user),
                          ParsePreferenceVector(user.preference_vector), MatchLimit)

(***************************************************************************)
(* UserRepository.get_active_users: active and onboarded, here by id.       *)
(***************************************************************************)
RECURSIVE OrderById(_)
OrderById(rows) ==
    IF rows = {} THEN <<>>
    ELSE LET first == CHOOSE r \in rows : \A q \in rows : r.id <= q.id
         IN  <<first>> \o OrderById(rows \ {first})

\* the enumeration without the is_active condition
get_active_users_WithPaused(user_table) ==
    OrderById({user_table[u] : u \in {v \in DOMAIN user_table :
                  user_table[v].onboarding_completed}})

get_active_users(user_table) ==
    OrderById({user_table[u] : u \in {v \in DOMAIN user_table :
                  user_table[v].is_active /\ user_table[v].onboarding_completed}})

(***************************************************************************)
(* The data set.  Listing i was analyzed at time i and is of one of six     *)
(* kinds; a user row is of one of the user kinds.                           *)
(***************************************************************************)
UserIds == {1, 2}
ListingIds == 1..NumListings

AllScores(v) == [k \in {ScoreKeys[i] : i \in 1..Len(ScoreKeys)} |-> v]
Features(balcony, pets, furnished) ==
    [has_balcony |-> balcony, is_pet_friendly |-> pets, is_furnished |-> furnished]

ListingKinds == <<
    \* close to the taste vector, good scores, cheap, Palermo, balcony
    [price_usd |-> 900, rooms |-> 2, neighborhood |-> "Palermo",
     scores |-> AllScores(900), embedding_vector |-> PyList(<<3, 4>>),
     vibe_embedding |-> PyNone,
     raw |-> [operation_type |-> "alquiler", features |-> Features(TRUE, FALSE, FALSE),
              parking_spaces |-> None]],
    \* final score exactly on the threshold; vector stored as a string
    [price_usd |-> 950, rooms |-> 3, neighborhood |-> "Belgrano",
     scores |-> AllScores(625), embedding_vector |-> PyStr(<<"[", "3", ",", "4", "]">>),
     vibe_embedding |-> PyNone,
     raw |-> [operation_type |-> "alquiler", features |-> Features(FALSE, TRUE, FALSE),
              parking_spaces |-> 0]],
    \* below the threshold
    [price_usd |-> 800, rooms |-> 2, neighborhood |-> "Palermo",
     scores |-> AllScores(500), embedding_vector |-> PyList(<<4, 3>>),
     vibe_embedding |-> PyNone,
     raw |-> [operation_type |-> "alquiler", features |-> Features(TRUE, TRUE, TRUE),
              parking_spaces |-> 1]],
    \* for sale
    [price_usd |-> 900, rooms |-> 2, neighborhood |-> "Palermo",
     scores |-> AllScores(900), embedding_vector |-> PyList(<<3, 4>>),
     vibe_embedding |-> PyNone,
     raw |-> [operation_type |-> "venta", features |-> Features(TRUE, TRUE, TRUE),
              parking_spaces |-> 1]],
    \* expensive, only a vibe embedding
    [price_usd |-> 1500, rooms |-> 4, neighborhood |-> "Belgrano",
     scores |-> AllScores(800), embedding_vector |-> PyNone,
     vibe_embedding |-> PyList(<<3, 4>>),
     raw |-> [operation_type |-> "alquiler", features |-> Features(FALSE, FALSE, TRUE),
              parking_spaces |-> None]],
    \* with a parking space, balcony, pets, furnished
    [price_usd |-> 1000, rooms |-> 2, neighborhood |-> "Palermo",
     scores |-> AllScores(700), embedding_vector |-> PyList(<<3, 4>>),
     vibe_embedding |-> PyList(<<4, 3>>),
     raw |-> [operation_type |-> "alquiler", features |-> Features(TRUE, TRUE, TRUE),
              parking_spaces |-> 1]] >>

ListingRow(i) ==
    LET kind == ListingKinds[((i - 1) % Len(ListingKinds)) + 1]
    IN  [id |-> i, analyzed_at |-> i, price_usd |-> kind.price_usd,
         rooms |-> kind.rooms, neighborhood |-> kind.neighborhood,
         scores |-> kind.scores, embedding_vector |-> kind.embedding_vector,
         vibe_embedding |-> kind.vibe_embedding, raw |-> kind.raw]

ListingTable == {ListingRow(i) : i \in ListingIds}

EmptyDict == [k \in {} |-> 0]

UserKinds == <<
    \* no stored preferences: the defaults
    [is_active |-> TRUE, onboarding_completed |-> TRUE,
     preferences |-> [hard_filters |-> EmptyDict, soft_preferences |-> EmptyDict],
     preference_vector |-> PyList(<<3, 4>>)],
    \* budget, rooms, barrio and balcony; vector stored as a string
    [is_active |-> TRUE, onboarding_completed |-> TRUE,
     preferences |-> [hard_filters |-> [max_price_usd |-> 1000, min_rooms |-> 2,
                                        max_rooms |-> 3,
                                        neighborhoods |-> {"Palermo"},
                                        requires_balcony |-> TRUE],
                      soft_preferences |-> EmptyDict],
     preference_vector |-> PyStr(<<"[", "3", ",", "4", "]">>)],
    \* wants a parking space
    [is_active |-> TRUE, onboarding_completed |-> TRUE,
     preferences |-> [hard_filters |-> [max_price_usd |-> 1000,
                                        requires_parking |-> TRUE],
                      soft_preferences |-> EmptyDict],
     preference_vector |-> PyList(<<3, 4>>)],
    \* paused
    [is_active |-> FALSE, onboarding_completed |-> TRUE,
     preferences |-> [hard_filters |-> EmptyDict, soft_preferences |-> EmptyDict],
     preference_vector |-> PyList(<<3, 4>>)],
    \* still onboarding, no vector yet
    [is_active |-> TRUE, onboarding_completed |-> FALSE,
     preferences |-> [hard_filters |-> EmptyDict, soft_preferences |-> EmptyDict],
     preference_vector |-> PyNone] >>

UserRow(u, k) ==
    [id |-> u, telegram_id |-> 100 + u, is_active |-> UserKinds[k].is_active,
     onboarding_completed |-> UserKinds[k].onboarding_completed,
     preferences |-> UserKinds[k].preferences,
     preference_vector |-> UserKinds[k].preference_vector,
     total_likes |-> 0, total_dislikes |-> 0]

(***************************************************************************)
(* State.                                                                   *)
(*   users, listings, sent_notifications: the three tables;                 *)
(*   pc, active_users, matches, stats: the position of the running cycle,   *)
(*     the users still to process (the first one being processed), the      *)
(*     matches still to dispatch for that user, the statistics dict;        *)
(*   exit_code: what run_matching's main passed to sys.exit (None while no  *)
(*     cycle has ended);                                                    *)
(*   cycles, faults: cycles started and faults injected so far;             *)
(*   delivered, cycle_delivered, last_send, enumerated, visited,            *)
(*   failed_users, run_clean, prev_clean: history of what the cycle did     *)
(*     (run_clean: so far this run processed every user without error,      *)
(*     cut no match list and delivered and recorded every match;            *)
(*     prev_clean: the run before this one ended that way);                 *)
(*   user_feedback: the user_feedback table, the rows of each (user,        *)
(*     listing) pair as the sequence of their feedback types;               *)
(*   learning_rate: FeedbackHandler.learning_rate, in thousandths;          *)
(*   callbacks, last_callback: feedback callbacks handled so far and what   *)
(*     the last one was and did;                                            *)
(*   generate_calls: the (user, listing) pairs for which                    *)
(*     PersonalizedMatchAnalyzer.generate has been called;                  *)
(*   engines: the cycles that run concurrently in SpecConcurrent, each with  *)
(*     its position, the candidates still to check, the ones kept, the      *)
(*     matches still to send, the listings it delivered and whether it      *)
(*     started while another cycle was running;                             *)
(*   h_args, h_done, h_result: arguments and result of a single call of     *)
(*     one function, for the specifications that exercise a function alone. *)
(***************************************************************************)
VARIABLES users, listings, sent_notifications, pc, active_users, matches, stats,
          exit_code, cycles, faults, delivered, cycle_delivered, last_send,
          enumerated, visited, failed_users, run_clean, prev_clean,
          user_feedback, learning_rate, callbacks, last_callback,
          generate_calls, engines, h_args, h_done, h_result

feedback_vars == <<user_feedback, learning_rate, callbacks, last_callback>>

cycle_vars == <<users, listings, sent_notifications, pc, active_users, matches,
                stats, exit_code, cycles, faults, delivered, cycle_delivered,
                last_send, enumerated, visited, failed_users, run_clean,
                prev_clean, feedback_vars, generate_calls, engines>>

call_vars == <<h_args, h_done, h_result>>

vars == <<cycle_vars, call_vars>>

ZeroStats == [users_processed |-> 0, matches_found |-> 0, notifications_sent |-> 0,
              errors |-> 0]

NoSend == [user_id |-> 0, listing_id |-> 0, result |-> "none", recorded |-> FALSE]

NoCall == /\ h_args = <<>>
          /\ h_done = FALSE
          /\ h_result = <<>>

FeedbackListingIds == 1..5

FeedbackPairs == UserIds \X FeedbackListingIds

NoCallback == [user_id |-> 0, listing_id |-> 0, is_like |-> FALSE, outcome |-> "none"]

\* no feedback yet, the handler built with the default learning rate
FeedbackIdle ==
    /\ user_feedback = [p \in FeedbackPairs |-> <<>>]
    /\ learning_rate = feedback_learning_rate
    /\ callbacks = 0
    /\ last_callback = NoCallback

\* no cycle has run
EngineIdle ==
    /\ sent_notifications = {}
    /\ pc = "idle"
    /\ active_users = <<>>
    /\ matches = <<>>
    /\ stats = ZeroStats
    /\ exit_code = None
    /\ cycles = 0
    /\ faults = 0
    /\ delivered = [p \in UserIds \X ListingIds |-> 0]
    /\ cycle_delivered = [u \in UserIds |-> 0]
    /\ last_send = NoSend
    /\ enumerated = {}
    /\ visited = {}
    /\ failed_users = {}
    /\ run_clean = FALSE
    /\ prev_clean = FALSE
    /\ generate_calls = {}
    /\ engines = [e \in 1..ConcurrentCycles |-> [pc |-> "idle", fetched |-> <<>>, results |-> <<>>, matches |-> <<>>, sent_here |-> <<>>, overlapped |-> FALSE]]

CycleInit(user_table) ==
    /\ users = user_table
    /\ listings = ListingTable
    /\ EngineIdle
    /\ FeedbackIdle

Init ==
    /\ \E kind \in [UserIds -> 1..Len(UserKinds)] :
           CycleInit([u \in UserIds |-> UserRow(u, kind[u])])
    /\ NoCall

\* what a matching cycle reads and leaves alone
Data == <<users, listings, feedback_vars, generate_calls, engines>>

CycleIdle == pc \in {"idle", "done", "failed"}

\* the position after the current user: the next user, or the return
AfterUser == IF Len(active_users) > 1 THEN "user" ELSE "finish"

ResetHistory ==
    /\ cycle_delivered' = [u \in UserIds |-> 0]
    /\ last_send' = NoSend
    /\ visited' = {}
    /\ failed_users' = {}
    /\ prev_clean' = (pc = "done" /\ run_clean)

(***************************************************************************)
(* run_matching_cycle -> process_new_listings, up to the user loop.         *)
(* get_active_users answers: an empty answer returns the zero statistics    *)
(* and main exits 0.                                                        *)
(***************************************************************************)
StartCycle ==
    /\ CycleIdle
    /\ cycles < MaxCycles
    /\ cycles' = cycles + 1
    /\ stats' = ZeroStats
    /\ active_users' = get_active_users(users)
    /\ enumerated' = {active_users'[i].id : i \in 1..Len(active_users')}
    /\ matches' = <<>>
    /\ IF active_users' = <<>>
       THEN pc' = "done" /\ exit_code' = 0
       ELSE pc' = "user" /\ exit_code' = None
    /\ run_clean' = TRUE
    /\ ResetHistory
    /\ UNCHANGED <<Data, sent_notifications, faults, delivered, call_vars>>

\* the failure swallowed on the way up: main exits 0
EnumerateUsersFails_Swallowed ==
    /\ CycleIdle
    /\ cycles < MaxCycles
    /\ faults < MaxFaults
    /\ cycles' = cycles + 1
    /\ faults' = faults + 1
    /\ stats' = ZeroStats
    /\ active_users' = <<>>
    /\ enumerated' = {}
    /\ matches' = <<>>
    /\ pc' = "failed"
    /\ exit_code' = 0
    /\ run_clean' = FALSE
    /\ ResetHistory
    /\ UNCHANGED <<Data, sent_notifications, delivered, call_vars>>

(***************************************************************************)
(* get_active_users raises: process_new_listings and run_matching_cycle     *)
(* let it through, main logs it and exits 1.                                *)
(***************************************************************************)
EnumerateUsersFails ==
    /\ CycleIdle
    /\ cycles < MaxCycles
    /\ faults < MaxFaults
    /\ cycles' = cycles + 1
    /\ faults' = faults + 1
    /\ stats' = ZeroStats
    /\ active_users' = <<>>
    /\ enumerated' = {}
    /\ matches' = <<>>
    /\ pc' = "failed"
    /\ exit_code' = 1
    /\ run_clean' = FALSE
    /\ ResetHistory
    /\ UNCHANGED <<Data, sent_notifications, delivered, call_vars>>

\* the matches of a user before the cut to the limit
Qualifying(table, sent, user) ==
    LET prefs == RebuildPreferences(user)
        hard == prefs.hard_filters
        fetched == search_by_filters(table, hard.neighborhoods, hard.min_price_usd,
                                     hard.max_price_usd, hard.min_rooms,
                                     hard.max_rooms, MatchLimit * 2)
    IN  RankMatches(FilterCandidates(fetched, sent, user.id, hard),
                    ParsePreferenceVector(user.preference_vector),
                    prefs.soft_preferences)

(***************************************************************************)
(* One turn of the user loop up to the notification loop: the preferences   *)
(* are rebuilt, find_matches_for_user runs, the two counters are raised.    *)
(***************************************************************************)
ProcessUser ==
    /\ pc = "user"
    /\ LET user == Head(active_users)
           found == UserMatches(listings, sent_notifications, user)
       IN  /\ visited' = visited \cup {user.id}
           /\ stats' = [stats EXCEPT !.users_processed = @ + 1,
                                     !.matches_found = @ + Len(found)]
           /\ matches' = found
           /\ IF found = <<>>
              THEN pc' = AfterUser /\ active_users' = Tail(active_users)
              ELSE pc' = "notify" /\ active_users' = active_users
           /\ run_clean' = (run_clean /\
                  Len(Qualifying(listings, sent_notifications, user)) <= MatchLimit)
    /\ UNCHANGED <<Data, sent_notifications, exit_code, cycles, faults, delivered,
                   cycle_delivered, last_send, enumerated, failed_users,
                   prev_clean, call_vars>>

\* the outer try missing: the exception leaves process_new_listings
ProcessUserRaises_Uncaught ==
    /\ pc = "user"
    /\ faults < MaxFaults
    /\ faults' = faults + 1
    /\ visited' = visited \cup {Head(active_users).id}
    /\ failed_users' = failed_users \cup {Head(active_users).id}
    /\ matches' = <<>>
    /\ pc' = "failed"
    /\ exit_code' = 1
    /\ active_users' = <<>>
    /\ run_clean' = FALSE
    /\ UNCHANGED <<Data, sent_notifications, stats, cycles, delivered,
                   cycle_delivered, last_send, enumerated, prev_clean, call_vars>>

(***************************************************************************)
(* The same turn raising before the notification loop (a store call or the  *)
(* preference models): the outer except counts an error, the loop goes on.  *)
(***************************************************************************)
ProcessUserRaises ==
    /\ pc = "user"
    /\ faults < MaxFaults
    /\ faults' = faults + 1
    /\ visited' = visited \cup {Head(active_users).id}
    /\ failed_users' = failed_users \cup {Head(active_users).id}
    /\ stats' = [stats EXCEPT !.errors = @ + 1]
    /\ matches' = <<>>
    /\ pc' = AfterUser
    /\ active_users' = Tail(active_users)
    /\ run_clean' = FALSE
    /\ UNCHANGED <<Data, sent_notifications, exit_code, cycles, delivered,
                   cycle_delivered, last_send, enumerated, prev_clean, call_vars>>

\* the notification loop moves to the next match, or the user loop goes on
NextMatch ==
    /\ matches' = Tail(matches)
    /\ IF Len(matches) > 1
       THEN pc' = "notify" /\ active_users' = active_users
       ELSE pc' = AfterUser /\ active_users' = Tail(active_users)

SendRecord(result, recorded) ==
    [user_id |-> Head(active_users).id, listing_id |-> Head(matches).listing_id,
     result |-> result, recorded |-> recorded]

CurrentPair == <<Head(active_users).id, Head(matches).listing_id>>

(***************************************************************************)
(* One turn of the notification loop, by outcome.                           *)
(* The message is delivered and the row is written.                         *)
(***************************************************************************)
SendDelivered ==
    /\ pc = "notify"
    /\ delivered' = [delivered EXCEPT ![CurrentPair] = @ + 1]
    /\ cycle_delivered' = [cycle_delivered EXCEPT ![CurrentPair[1]] = @ + 1]
    /\ sent_notifications' = sent_notifications \cup {CurrentPair}
    /\ stats' = [stats EXCEPT !.notifications_sent = @ + 1]
    /\ last_send' = SendRecord("ok", TRUE)
    /\ NextMatch
    /\ UNCHANGED <<Data, exit_code, cycles, faults, enumerated, visited,
                   failed_users, run_clean, prev_clean, call_vars>>

\* The message is delivered, notification_repo.create raises: the inner
\* except counts an error, no row is written.
SendDeliveredRecordFails ==
    /\ pc = "notify"
    /\ faults < MaxFaults
    /\ faults' = faults + 1
    /\ delivered' = [delivered EXCEPT ![CurrentPair] = @ + 1]
    /\ cycle_delivered' = [cycle_delivered EXCEPT ![CurrentPair[1]] = @ + 1]
    /\ stats' = [stats EXCEPT !.errors = @ + 1]
    /\ last_send' = SendRecord("ok", FALSE)
    /\ run_clean' = FALSE
    /\ NextMatch
    /\ UNCHANGED <<Data, sent_notifications, exit_code, cycles, enumerated, visited,
                   failed_users, prev_clean, call_vars>>

\* the row written whatever the send returned
SendReturnsFalse_Recorded ==
    /\ pc = "notify"
    /\ faults < MaxFaults
    /\ faults' = faults + 1
    /\ sent_notifications' = sent_notifications \cup {CurrentPair}
    /\ stats' = [stats EXCEPT !.notifications_sent = @ + 1]
    /\ last_send' = SendRecord("false", FALSE)
    /\ run_clean' = FALSE
    /\ NextMatch
    /\ UNCHANGED <<Data, exit_code, cycles, delivered, cycle_delivered, enumerated,
                   visited, failed_users, prev_clean, call_vars>>

\* send_listing_notification catches a Telegram error and returns False.
SendReturnsFalse ==
    /\ pc = "notify"
    /\ faults < MaxFaults
    /\ faults' = faults + 1
    /\ last_send' = SendRecord("false", FALSE)
    /\ run_clean' = FALSE
    /\ NextMatch
    /\ UNCHANGED <<Data, sent_notifications, stats, exit_code, cycles, delivered,
                   cycle_delivered, enumerated, visited, failed_users,
                   prev_clean, call_vars>>

\* send_listing_notification raises before its try (building the Bot): the
\* inner except counts an error.
SendRaises ==
    /\ pc = "notify"
    /\ faults < MaxFaults
    /\ faults' = faults + 1
    /\ stats' = [stats EXCEPT !.errors = @ + 1]
    /\ last_send' = SendRecord("raise", FALSE)
    /\ run_clean' = FALSE
    /\ NextMatch
    /\ UNCHANGED <<Data, sent_notifications, exit_code, cycles, delivered,
                   cycle_delivered, enumerated, visited, failed_users,
                   prev_clean, call_vars>>

(***************************************************************************)
(* process_new_listings returns the statistics; main exits 0 when there     *)
(* were no errors and 1 otherwise.                                          *)
(***************************************************************************)
ReturnStats ==
    /\ pc = "finish"
    /\ pc' = "done"
    /\ exit_code' = IF stats.errors = 0 THEN 0 ELSE 1
    /\ UNCHANGED <<Data, sent_notifications, active_users, matches, stats, cycles,
                   faults, delivered, cycle_delivered, last_send, enumerated,
                   visited, failed_users, run_clean, prev_clean, call_vars>>

Next ==
    \/ StartCycle
    \/ EnumerateUsersFails
    \/ ProcessUser
    \/ ProcessUserRaises
    \/ SendDelivered
    \/ SendDeliveredRecordFails
    \/ SendReturnsFalse
    \/ SendRaises
    \/ ReturnStats

Spec == Init /\ [][Next]_vars

(***************************************************************************)
(* Properties of the matching cycle (specification Spec).                   *)
(***************************************************************************)

\* C1: across non-overlapping cycles, with sends and row writes failing
\* independently, no (user, listing) pair is delivered more than once.
NoPairDeliveredTwice ==
    \A p \in UserIds \X ListingIds : delivered[p] <= 1

\* C2: a sent-notification row appears only in the step in which the send
\* for that pair returned success, and notifications_sent grows only in
\* that step; when the send returns False or raises, no row is written,
\* the counter stays and the pair is still unsent.
RowOnlyAfterSuccessfulSend ==
    [][/\ \A p \in sent_notifications' \ sent_notifications :
              /\ last_send' = [user_id |-> p[1], listing_id |-> p[2],
                               result |-> "ok", recorded |-> TRUE]
              /\ delivered'[p] = delivered[p] + 1
       /\ stats'.notifications_sent > stats.notifications_sent
              => /\ stats'.notifications_sent = stats.notifications_sent + 1
                 /\ sent_notifications' # sent_notifications
       /\ (pc = "notify" /\ last_send'.result \in {"false", "raise"})
              => /\ sent_notifications' = sent_notifications
                 /\ stats'.notifications_sent = stats.notifications_sent
                 /\ delivered' = delivered
                 /\ ~was_sent(sent_notifications', last_send'.user_id,
                              last_send'.listing_id)]_vars

FailedSendLeftNoRow ==
    /\ last_send.result \in {"false", "raise"}
    /\ ~was_sent(sent_notifications, last_send.user_id, last_send.listing_id)
    /\ delivered[<<last_send.user_id, last_send.listing_id>>] = 0

UserFaultIsolated ==
    /\ pc = "done" =>
           /\ visited = enumerated
           /\ stats.users_processed = Cardinality(enumerated \ failed_users)
    /\ failed_users # {} =>
           /\ pc # "failed"
           /\ stats.errors >= Cardinality(failed_users)

LaterUserProcessedAfterFault ==
    /\ pc = "done"
    /\ \E f \in failed_users : \E u \in visited \ failed_users : u > f

\* C5: when the enumeration of users fails the cycle ends in failure with
\* exit code 1, nothing processed, delivered or recorded; an empty
\* enumeration ends normally with all-zero statistics and exit code 0.
EnumerationFailureAborts ==
    [][/\ pc' = "failed" =>
              /\ exit_code' = 1
              /\ visited' = {}
              /\ stats' = ZeroStats
              /\ delivered' = delivered
              /\ sent_notifications' = sent_notifications
       /\ (pc' = "done" /\ enumerated' = {}) =>
              /\ exit_code' = 0
              /\ stats' = ZeroStats
              /\ delivered' = delivered
              /\ sent_notifications' = sent_notifications]_vars

EnumerationFailedAfterRows ==
    /\ pc = "failed"
    /\ exit_code = 1
    /\ sent_notifications # {}

\* C6: every match returned by find_matches_for_user, and so every
\* dispatched one, has a final score at or above the threshold; a candidate
\* that is unsent, passes the filters and scores exactly the threshold is
\* among the matches before the cut to the limit.
ThresholdGate ==
    /\ \A i \in 1..Len(matches) : matches[i].final_score >= similarity_threshold
    /\ \A u \in UserIds :
           LET prefs == RebuildPreferences(users[u])
               hard == prefs.hard_filters
               pv == ParsePreferenceVector(users[u].preference_vector)
               fetched == search_by_filters(listings, hard.neighborhoods,
                              hard.min_price_usd, hard.max_price_usd,
                              hard.min_rooms, hard.max_rooms, MatchLimit * 2)
               found == UserMatches(listings, sent_notifications, users[u])
               found_ids == {found[i].listing_id : i \in 1..Len(found)}
           IN  /\ \A i \in 1..Len(found) :
                      found[i].final_score >= similarity_threshold
               /\ \A i \in 1..Len(fetched) :
                      (/\ ~was_sent(sent_notifications, u, fetched[i].id)
                       /\ PassesRequirements(fetched[i], hard)
                       /\ FinalScore(calculate_similarity(fetched[i], pv),
                                     calculate_weighted_score(fetched[i],
                                         prefs.soft_preferences))
                              = similarity_threshold
                       /\ Len(found) < MatchLimit)
                      => fetched[i].id \in found_ids

ThresholdMatchDispatched ==
    /\ pc = "notify"
    /\ Head(matches).final_score = similarity_threshold

\* C7: find_matches_for_user returns at most limit results, and within one
\* cycle no user is delivered more than MatchLimit notifications.
PerUserCap ==
    /\ Len(matches) <= MatchLimit
    /\ \A u \in UserIds :
           /\ Len(UserMatches(listings, sent_notifications, users[u])) <= MatchLimit
           /\ cycle_delivered[u] <= MatchLimit

CapReachedWithMoreQualifying ==
    \E u \in UserIds :
        /\ cycle_delivered[u] = MatchLimit
        /\ UserMatches(listings, sent_notifications, users[u]) # <<>>

(***************************************************************************)
(* Single calls.  Each of the three specifications below draws the          *)
(* arguments of one function in its initial state and applies the function  *)
(* once; the cycle stays idle.                                              *)
(***************************************************************************)
IdleCycle == CycleInit([u \in UserIds |-> UserRow(u, 1)])

BooleanSet == {TRUE, FALSE}

\* hard filters over every combination of the must-haves and both operations
RequirementFilters ==
    {FillDefaults([operation_type |-> op, requires_balcony |-> b,
                   requires_parking |-> k, requires_pets_allowed |-> p,
                   requires_furnished |-> f], HardDefaults) :
         op \in {"alquiler", "venta"}, b \in BooleanSet, k \in BooleanSet,
         p \in BooleanSet, f \in BooleanSet}

\* table rows of every kind with every parking count on the raw row
ParkingCounts == {None, 0, 1, 2}

RowsWithParking ==
    {[ListingRow(i) EXCEPT !.raw.parking_spaces = n] :
         i \in 1..Len(ListingKinds), n \in ParkingCounts}

(***************************************************************************)
(* SpecFilter: the requirement checks of find_matches_for_user on the dict  *)
(* that search_by_filters returns for a table row.                          *)
(***************************************************************************)
InitFilter ==
    /\ IdleCycle
    /\ h_args \in [hard : RequirementFilters, row : RowsWithParking]
    /\ h_done = FALSE
    /\ h_result = FALSE

ApplyFilter ==
    /\ ~h_done
    /\ h_done' = TRUE
    /\ h_result' = PassesRequirements(SelectRow(h_args.row), h_args.hard)
    /\ UNCHANGED <<cycle_vars, h_args>>

SpecFilter == InitFilter /\ [][ApplyFilter]_vars

\* the documented rules, on the table row and its raw row
DocumentedRequirements(row, hard) ==
    /\ row.raw.operation_type = hard.operation_type
    /\ hard.requires_balcony => row.raw.features.has_balcony
    /\ hard.requires_pets_allowed => row.raw.features.is_pet_friendly
    /\ hard.requires_furnished => row.raw.features.is_furnished
    /\ hard.requires_parking =>
           (row.raw.parking_spaces # None /\ row.raw.parking_spaces > 0)

\* C8: the filter stage admits a listing exactly when the documented rules
\* hold: same operation type, every requested must-have present, and for
\* requested parking a positive parking count on the source record.
FilterMatchesDocumentedRules ==
    h_done => (h_result <=> DocumentedRequirements(h_args.row, h_args.hard))

(***************************************************************************)
(* SpecMatch: find_matches_for_user after the fetch, on whatever list the   *)
(* store answered: one or two dicts of any kind, whatever the price and     *)
(* room bounds of the user.                                                 *)
(***************************************************************************)
RangeFilters ==
    {FillDefaults(h, HardDefaults) :
         h \in {EmptyDict,
                [max_price_usd |-> 1000],
                [min_price_usd |-> 950],
                [min_price_usd |-> 900, max_price_usd |-> 1000],
                [min_rooms |-> 2],
                [max_rooms |-> 3],
                [min_rooms |-> 2, max_rooms |-> 2, max_price_usd |-> 1000]}}

StoreDicts == {SelectRow(ListingRow(i)) : i \in 1..Len(ListingKinds)}

StoreAnswers ==
    {<<a>> : a \in StoreDicts} \cup
    {<<a, b>> : a \in StoreDicts, b \in StoreDicts}

InitMatch ==
    /\ IdleCycle
    /\ h_args \in [hard : RangeFilters, listings : StoreAnswers]
    /\ h_done = FALSE
    /\ h_result = <<>>

ApplyMatch ==
    /\ ~h_done
    /\ h_done' = TRUE
    /\ h_result' = MatchCandidates(h_args.listings, {}, 1,
                       [hard_filters |-> h_args.hard,
                        soft_preferences |-> SoftDefaults],
                       PyList(<<3, 4>>), MatchLimit)
    /\ UNCHANGED <<cycle_vars, h_args>>

SpecMatch == InitMatch /\ [][ApplyMatch]_vars

InRange(value, lo, hi) ==
    /\ lo # None => value >= lo
    /\ hi # None => value <= hi

\* C9: whatever list the store answers, no returned match has a USD price
\* outside [min_price_usd, max_price_usd] or a room count outside
\* [min_rooms, max_rooms].
MatchesRevalidatePriceAndRooms ==
    h_done =>
        \A i \in 1..Len(h_result) :
            /\ InRange(h_result[i].listing_data.price_usd,
                       h_args.hard.min_price_usd, h_args.hard.max_price_usd)
            /\ InRange(h_result[i].listing_data.rooms,
                       h_args.hard.min_rooms, h_args.hard.max_rooms)

(***************************************************************************)
(* SpecSim: _calculate_similarity on a listing dict and a preference        *)
(* vector.                                                                  *)
(***************************************************************************)
StoredVectors ==
    {PyNone, PyList(<<>>), PyList(<<3, 4>>), PyList(<<4, 3>>),
     PyList(<<0 - 3, 0 - 4>>), PyList(<<0, 0>>), PyList(<<3, 4, 12>>),
     PyStr(<<>>), PyStr(<<"[", "3", ",", "4", "]">>),
     PyStr(<<"[", "3", ",", "4", ",", "0", "]">>),
     PyStr(<<"[", "3", ",">>), PyStr(<<"[", "3", "4", "]">>),
     PyStr(<<"3">>), PyStr(<<"null">>), PyStr(<<"{", "}">>),
     PyStr(<<"[", "]">>)}

PreferenceVectors ==
    {PyNone, PyList(<<>>), PyList(<<3, 4>>), PyList(<<1, 0, 0>>), PyNum(3), PyDict}

InitSim ==
    /\ IdleCycle
    /\ h_args \in [listing : [embedding_vector : StoredVectors,
                              vibe_embedding : StoredVectors],
                   preference_vector : PreferenceVectors]
    /\ h_done = FALSE
    /\ h_result = 0

ApplySim ==
    /\ ~h_done
    /\ h_done' = TRUE
    /\ h_result' = calculate_similarity(h_args.listing, h_args.preference_vector)
    /\ UNCHANGED <<cycle_vars, h_args>>

SpecSim == InitSim /\ [][ApplySim]_vars

\* the vector of the listing that is compared: the full embedding when the
\* listing has one, the vibe embedding otherwise
Absent(v) == v.tag = "None" \/ (v.tag = "list" /\ v.list = <<>>)
             \/ (v.tag = "str" /\ v.text = <<>>)

ComparedVector(listing) ==
    IF Absent(listing.embedding_vector) THEN listing.vibe_embedding
    ELSE listing.embedding_vector

NoPreferenceVector(args) == Absent(args.preference_vector)

NoListingVector(args) ==
    Absent(args.listing.embedding_vector) /\ Absent(args.listing.vibe_embedding)

UnparseableListingVector(args) ==
    LET v == ComparedVector(args.listing)
    IN  /\ v.tag = "str"
        /\ v.text # <<>>
        /\ \/ ~json_loads(v.text).ok
           \/ json_loads(v.text).val.tag # "list"

\* the two vectors as lists, the listing's one parsed when it is a string
ComparedList(listing) ==
    LET v == ComparedVector(listing)
    IN  IF v.tag = "str" THEN json_loads(v.text).val.list ELSE v.list

LengthMismatch(args) ==
    LET v == ComparedVector(args.listing)
    IN  /\ args.preference_vector.tag = "list"
        /\ \/ v.tag = "list"
           \/ v.tag = "str" /\ v.text # <<>> /\ json_loads(v.text).ok
              /\ json_loads(v.text).val.tag = "list"
        /\ Len(ComparedList(args.listing)) # Len(args.preference_vector.list)

\* C10: _calculate_similarity returns exactly 0.5 when the user has no or an
\* empty preference vector, when the listing has neither vector, when the
\* listing vector is a string that does not parse or parses to a non-list,
\* and when the two vectors differ in length.
NeutralDefaultLaw ==
    h_done =>
        ((\/ NoPreferenceVector(h_args)
          \/ NoListingVector(h_args)
          \/ UnparseableListingVector(h_args)
          \/ LengthMismatch(h_args))
         => h_result = NeutralScore)

(***************************************************************************)
(* SpecScore: steps 2 and 3 of find_matches_for_user on one candidate dict  *)
(* whose keys may be absent, null or malformed.  A key of the dict is a     *)
(* tagged value: "missing" (no such key), "None" (null) or "dict".          *)
(* d.get(key, {}) answers the default for a missing key only, so a null     *)
(* comes back as None and the .get called on it raises AttributeError.      *)
(***************************************************************************)
KeyMissing == [tag |-> "missing", dict |-> EmptyDict]
KeyNull == [tag |-> "None", dict |-> EmptyDict]
KeyDict(d) == [tag |-> "dict", dict |-> d]

\* dict.get(key, {}) on a tagged key
GetOrEmpty(v, empty) == IF v.tag = "missing" THEN KeyDict(empty) ELSE v

NoScores == AllScores(None)
NoFeatures == Features(FALSE, FALSE, FALSE)

\* raw.get("features", {}) and the feature checks: the checks call
\* features.get only for a requested must-have
FeatureChecksRaise(features, hard) ==
    /\ features.tag = "None"
    /\ hard.requires_balcony \/ hard.requires_pets_allowed \/ hard.requires_furnished

CandidateOutcome(c, hard, preference_vector, soft) ==
    LET raw == GetOrEmpty(c.raw_listings, [operation_type |-> "", features |-> KeyMissing])
    IN  IF raw.tag = "None" THEN [outcome |-> "raised", similarity |-> 0,
                                  weighted |-> 0, final |-> 0]
        ELSE LET features == GetOrEmpty(raw.dict.features, NoFeatures)
                 scores == GetOrEmpty(c.scores, NoScores)
                 listing == [id |-> c.id,
                             embedding_vector |-> c.embedding_vector,
                             vibe_embedding |-> c.vibe_embedding,
                             scores |-> scores.dict,
                             raw_listings |->
                                 [operation_type |-> raw.dict.operation_type,
                                  features |-> IF features.tag = "dict"
                                               THEN features.dict ELSE NoFeatures]]
             IN  IF raw.dict.operation_type # hard.operation_type
                 THEN [outcome |-> "skipped", similarity |-> 0, weighted |-> 0,
                       final |-> 0]
                 ELSE IF FeatureChecksRaise(features, hard)
                 THEN [outcome |-> "raised", similarity |-> 0, weighted |-> 0,
                       final |-> 0]
                 ELSE IF ~PassesRequirements(listing, hard)
                 THEN [outcome |-> "skipped", similarity |-> 0, weighted |-> 0,
                       final |-> 0]
                 ELSE IF scores.tag = "None"
                 THEN [outcome |-> "raised",
                       similarity |-> calculate_similarity(listing, preference_vector),
                       weighted |-> 0, final |-> 0]
                 ELSE LET m == ScoreListing(listing, preference_vector, soft)
                      IN  [outcome |-> "scored", similarity |-> m.similarity_score,
                           weighted |-> m.weighted_score, final |-> m.final_score]

CandidateScores ==
    {KeyMissing, KeyNull, KeyDict(NoScores), KeyDict(AllScores(900)),
     KeyDict(AllScores(Malformed)), KeyDict(AllScores(0)), KeyDict(AllScores(Scale)),
     KeyDict([AllScores(None) EXCEPT !["quietness"] = Scale, !["modernity"] = Malformed])}

CandidateRaws ==
    {KeyMissing, KeyNull} \cup
    {KeyDict([operation_type |-> "alquiler", features |-> f]) :
         f \in {KeyMissing, KeyNull, KeyDict(Features(TRUE, FALSE, FALSE))}}

CandidateVectors ==
    {PyNone, PyList(<<3, 4>>), PyList(<<0 - 3, 0 - 4>>),
     PyStr(<<"[", "3", ",">>), PyStr(<<"[", "4", ",", "3", "]">>)}

Candidates ==
    [id : {1}, scores : CandidateScores, raw_listings : CandidateRaws,
     embedding_vector : CandidateVectors, vibe_embedding : {PyNone, PyList(<<3, 4>>)}]

InitScore ==
    /\ IdleCycle
    /\ h_args \in [candidate : Candidates,
                   hard : {HardDefaults, [HardDefaults EXCEPT !.requires_balcony = TRUE]},
                   preference_vector : {PyNone, PyList(<<3, 4>>)}]
    /\ h_done = FALSE
    /\ h_result = [outcome |-> "none", similarity |-> 0, weighted |-> 0, final |-> 0]

ApplyScore ==
    /\ ~h_done
    /\ h_done' = TRUE
    /\ h_result' = CandidateOutcome(h_args.candidate, h_args.hard,
                                    h_args.preference_vector, SoftDefaults)
    /\ UNCHANGED <<cycle_vars, h_args>>

SpecScore == InitScore /\ [][ApplyScore]_vars

InUnit(x, one) == 0 <= x /\ x <= one

\* C11: for every candidate record, whatever is missing, null or malformed
\* in its scores, raw_listings, features or embeddings, filtering and
\* scoring it does not raise, and the similarity, weighted and final scores
\* of a scored candidate lie in [0,1].
ScoringNeverRaisesAndStaysInUnit ==
    h_done =>
        /\ h_result.outcome # "raised"
        /\ h_result.outcome = "scored" =>
               /\ InUnit(h_result.similarity, Scale)
               /\ InUnit(h_result.weighted, Scale)
               /\ InUnit(h_result.final, 10 * Scale)

(***************************************************************************)
(* SpecCos: cosine_similarity and the rescaling of _calculate_similarity on *)
(* two vectors of the same length, the zero vector among them.              *)
(***************************************************************************)
Components == (0 - MaxComponent)..MaxComponent

CosVectors == {<<a, b>> : a \in Components, b \in Components}

InitCos ==
    /\ IdleCycle
    /\ h_args \in [vec1 : CosVectors, vec2 : CosVectors]
    /\ h_done = FALSE
    /\ h_result = [cosine |-> 0, similarity |-> 0]

ApplyCos ==
    /\ ~h_done
    /\ h_done' = TRUE
    /\ h_result' =
           [cosine |-> cosine_similarity(h_args.vec1, h_args.vec2),
            similarity |-> calculate_similarity(
                [embedding_vector |-> PyList(h_args.vec2), vibe_embedding |-> PyNone],
                PyList(h_args.vec1))]
    /\ UNCHANGED <<cycle_vars, h_args>>

SpecCos == InitCos /\ [][ApplyCos]_vars

ZeroVector(v) == \A i \in 1..Len(v) : v[i] = 0

Opposite(v, w) == w = [i \in 1..Len(v) |-> 0 - v[i]]

\* the last place of a similarity, in thousandths
LastPlace == 1

\* C12 as stated: for two non-zero vectors of equal length the rescaled
\* similarity is in [0,1], it is exactly 1.0 for identical vectors and
\* exactly 0.0 for opposite vectors; with a zero-norm vector the cosine is 0
\* and the rescaled similarity 0.5.
CosineRescaleExact ==
    h_done =>
        /\ InUnit(h_result.similarity, Scale)
        /\ (~ZeroVector(h_args.vec1) /\ h_args.vec1 = h_args.vec2)
               => h_result.similarity = Scale
        /\ (~ZeroVector(h_args.vec1) /\ Opposite(h_args.vec1, h_args.vec2))
               => h_result.similarity = 0
        /\ (ZeroVector(h_args.vec1) \/ ZeroVector(h_args.vec2))
               => h_result.cosine = 0 /\ h_result.similarity = NeutralScore

\* C12, amended: the rescaled similarity is in [0,1]; for identical vectors
\* it is within one unit in the last place of 1.0 and for opposite vectors
\* within one unit in the last place of 0.0, the rounding of the two square
\* roots, their product and the quotient deciding whether the bound is
\* met; with a zero-norm vector the cosine is 0 and the rescaled similarity
\* exactly 0.5.
CosineRescaleUpToRounding ==
    h_done =>
        /\ InUnit(h_result.similarity, Scale)
        /\ (~ZeroVector(h_args.vec1) /\ h_args.vec1 = h_args.vec2)
               => h_result.similarity >= Scale - LastPlace
        /\ (~ZeroVector(h_args.vec1) /\ Opposite(h_args.vec1, h_args.vec2))
               => h_result.similarity <= LastPlace
        /\ (ZeroVector(h_args.vec1) \/ ZeroVector(h_args.vec2))
               => h_result.cosine = 0 /\ h_result.similarity = NeutralScore

\* identical non-zero vectors whose similarity came out below 1.0
IdenticalVectorsRoundedBelowOne ==
    /\ h_done
    /\ "vec1" \in DOMAIN h_args
    /\ ~ZeroVector(h_args.vec1)
    /\ h_args.vec1 = h_args.vec2
    /\ h_result.similarity = Scale - LastPlace

(***************************************************************************)
(* SpecScenario: find_matches_for_user over a table of two listings, A (900 *)
(* USD, 2 rooms, embedding at cosine 0.95 of the preference vector) and B   *)
(* (1500 USD, 2 rooms), for a user with max_price_usd 1000 and min_rooms 2. *)
(* The scenario fixes neither the scores of A nor anything else of B.       *)
(***************************************************************************)
ScenarioHard == FillDefaults([max_price_usd |-> 1000, min_rooms |-> 2], HardDefaults)

\* pairs <<V, embedding of A>> of cosine 3 / sqrt(10), about 0.949
ScenarioVectors == {<<<<1, 1>>, <<2, 1>>>>, <<<<2, 1>>, <<1, 1>>>>, <<<<1, 1>>, <<1, 2>>>>}

ScenarioScores ==
    {NoScores, AllScores(0), AllScores(NeutralScore), AllScores(650),
     AllScores(670), AllScores(900), AllScores(975), AllScores(Scale)}

ListingA(vector, scores) ==
    [id |-> 1, analyzed_at |-> 1, price_usd |-> 900, rooms |-> 2,
     neighborhood |-> "Palermo", scores |-> scores,
     embedding_vector |-> PyList(vector), vibe_embedding |-> PyNone,
     raw |-> [operation_type |-> "alquiler", features |-> NoFeatures,
              parking_spaces |-> None]]

ListingB(vector, scores) ==
    [id |-> 2, analyzed_at |-> 2, price_usd |-> 1500, rooms |-> 2,
     neighborhood |-> "Palermo", scores |-> scores,
     embedding_vector |-> vector, vibe_embedding |-> PyNone,
     raw |-> [operation_type |-> "alquiler", features |-> NoFeatures,
              parking_spaces |-> None]]

InitScenario ==
    /\ IdleCycle
    /\ \E vs \in ScenarioVectors, sa \in ScenarioScores,
          sb \in {NoScores, AllScores(Scale)}, same \in BooleanSet :
           h_args = [preference_vector |-> PyList(vs[1]),
                     table |-> {ListingA(vs[2], sa),
                                ListingB(IF same THEN PyList(vs[1]) ELSE PyNone, sb)}]
    /\ h_done = FALSE
    /\ h_result = <<>>

ApplyScenario ==
    /\ ~h_done
    /\ h_done' = TRUE
    /\ h_result' = find_matches_for_user(h_args.table, {}, 1,
                       [hard_filters |-> ScenarioHard,
                        soft_preferences |-> SoftDefaults],
                       h_args.preference_vector, MatchLimit)
    /\ UNCHANGED <<cycle_vars, h_args>>

SpecScenario == InitScenario /\ [][ApplyScenario]_vars

\* "about": within 0.01
About(x, y, one) == 100 * Abs(x - y) <= one

ScenarioA == CHOOSE r \in h_args.table : r.id = 1

ScenarioFinalOfA ==
    FinalScore(calculate_similarity(SelectRow(ScenarioA), h_args.preference_vector),
               calculate_weighted_score(SelectRow(ScenarioA), SoftDefaults))

\* C13 as stated: the scenario yields exactly one MatchResult, for A, with a
\* final score of about 0.975, the rescaled similarity; B is not returned.
ScenarioYieldsAAtRescaledSimilarity ==
    h_done =>
        /\ Len(h_result) = 1
        /\ h_result[1].listing_id = 1
        /\ About(h_result[1].final_score, 9750, 10 * Scale)

\* C13, amended: B is never returned and at most one MatchResult is; A is
\* returned exactly when 0.6 * similarity + 0.4 * weighted reaches the
\* threshold, which depends on the scores of A; when A is returned its
\* similarity_score is about 0.975 and its final score is the blend
\* 0.6 * similarity + 0.4 * weighted.
ScenarioYieldsAByBlend ==
    h_done =>
        /\ Len(h_result) <= 1
        /\ \A i \in 1..Len(h_result) : h_result[i].listing_id = 1
        /\ (h_result # <<>>) <=> (ScenarioFinalOfA >= similarity_threshold)
        /\ h_result # <<>> =>
               /\ About(h_result[1].similarity_score, 975, Scale)
               /\ h_result[1].final_score =
                      6 * h_result[1].similarity_score + 4 * h_result[1].weighted_score
               /\ h_result[1].final_score = ScenarioFinalOfA

\* the scenario ran and A came back with a final score that is not about
\* 0.975
ScenarioAReturnedBelowRescaled ==
    /\ h_done
    /\ "table" \in DOMAIN h_args
    /\ Len(h_result) = 1
    /\ ~About(h_result[1].final_score, 9750, 10 * Scale)

(***************************************************************************)
(* FeedbackHandler.  A vector arrives from the store as a list or, as the   *)
(* engine expects of the same columns, as a string; the handler parses      *)
(* neither.  In these specifications a component of a list is a float in    *)
(* units of 1/One.  len() of a string counts characters, zip pairs          *)
(* characters, and arithmetic on them raises TypeError.                     *)
(***************************************************************************)
TokenChars(token) ==
    IF token \in {"-4", "-3"} THEN 2 ELSE IF token = "null" THEN 4 ELSE 1

PyLen(v) ==
    IF v.tag = "list" THEN Len(v.list)
    ELSE SeqSum([i \in 1..Len(v.text) |-> TokenChars(v.text[i])])

\* cur + lr * delta, the product and the sum rounded
LearningStep(cur, lr, delta) == Fl(cur + Fl(lr * delta, Scale), 1)

AdjustNone == [kind |-> "None", value |-> PyNone]

\* a dislike treated as a like
adjust_preference_vector_AlwaysTowards(current_vector, listing_vector, is_like, lr) ==
    IF ~Truthy(listing_vector) THEN AdjustNone
    ELSE IF ~Truthy(current_vector)
         THEN IF is_like THEN [kind |-> "vector", value |-> listing_vector]
              ELSE AdjustNone
    ELSE IF PyLen(current_vector) # PyLen(listing_vector) THEN AdjustNone
    ELSE IF current_vector.tag # "list" \/ listing_vector.tag # "list"
         THEN [kind |-> "raise", value |-> PyNone]
    ELSE [kind |-> "vector",
          value |-> PyList([i \in 1..Len(current_vector.list) |->
                       LearningStep(current_vector.list[i], lr,
                                    listing_vector.list[i] - current_vector.list[i])])]

\* a dislike making up a vector for a user who has none
adjust_preference_vector_Fabricates(current_vector, listing_vector, is_like, lr) ==
    IF ~Truthy(listing_vector) THEN AdjustNone
    ELSE [kind |-> "vector", value |-> listing_vector]

(***************************************************************************)
(* FeedbackHandler._adjust_preference_vector: None, a new vector, or the    *)
(* TypeError of the comprehension.                                          *)
(***************************************************************************)
adjust_preference_vector(current_vector, listing_vector, is_like, lr) ==
    IF ~Truthy(listing_vector) THEN AdjustNone
    ELSE IF ~Truthy(current_vector)
         THEN IF is_like THEN [kind |-> "vector", value |-> listing_vector]
              ELSE AdjustNone
    ELSE IF PyLen(current_vector) # PyLen(listing_vector) THEN AdjustNone
    ELSE IF current_vector.tag # "list" \/ listing_vector.tag # "list"
         THEN [kind |-> "raise", value |-> PyNone]
    ELSE LET cur == current_vector.list
             target == listing_vector.list
         IN  [kind |-> "vector",
              value |-> PyList([i \in 1..Len(cur) |->
                           IF is_like
                           THEN LearningStep(cur[i], lr, target[i] - cur[i])
                           ELSE LearningStep(cur[i], lr, cur[i] - target[i])])]

\* AnalyzedListingRepository.get_by_id: the rows with that id
get_by_id(table, listing_id) == {r \in table : r.id = listing_id}

\* the vector handle_like and handle_dislike pass on, None when the row or
\* its embedding_vector is missing or empty
FeedbackTarget(table, listing_id) ==
    LET analyzed == get_by_id(table, listing_id)
    IN  IF analyzed = {} THEN PyNone
        ELSE LET row == CHOOSE r \in analyzed : TRUE
             IN  IF Truthy(row.embedding_vector) THEN row.embedding_vector
                 ELSE PyNone

FeedbackType(is_like) == IF is_like THEN "like" ELSE "dislike"

\* FeedbackRepository.create: upsert on (user_id, analyzed_listing_id)
FeedbackCreate(table, user_id, listing_id, feedback_type) ==
    [table EXCEPT ![<<user_id, listing_id>>] = <<feedback_type>>]

\* UserRepository.increment_feedback_count
increment_feedback_count(user, is_like) ==
    IF is_like THEN [user EXCEPT !.total_likes = @ + 1]
    ELSE [user EXCEPT !.total_dislikes = @ + 1]

(***************************************************************************)
(* handle_like and handle_dislike, whole: the vector is adjusted and saved  *)
(* when the adjustment answers one, the feedback row is upserted, the       *)
(* counter raised.  A TypeError in the adjustment leaves the handler before *)
(* any write.                                                               *)
(***************************************************************************)
HandleFeedback(u, l, is_like) ==
    LET adj == adjust_preference_vector(users[u].preference_vector,
                   FeedbackTarget(listings, l), is_like, learning_rate)
    IN  /\ callbacks < MaxCallbacks
        /\ callbacks' = callbacks + 1
        /\ IF adj.kind = "raise"
           THEN /\ last_callback' = [user_id |-> u, listing_id |-> l,
                                     is_like |-> is_like, outcome |-> "raised"]
                /\ UNCHANGED <<users, user_feedback>>
           ELSE /\ last_callback' = [user_id |-> u, listing_id |-> l,
                                     is_like |-> is_like, outcome |-> "recorded"]
                /\ users' = [users EXCEPT ![u] = increment_feedback_count(
                                 IF adj.kind = "vector"
                                 THEN [@ EXCEPT !.preference_vector = adj.value]
                                 ELSE @, is_like)]
                /\ user_feedback' = FeedbackCreate(user_feedback, u, l,
                                                   FeedbackType(is_like))
        /\ UNCHANGED <<listings, learning_rate, sent_notifications, pc, active_users,
                       matches, stats, exit_code, cycles, faults, delivered,
                       cycle_delivered, last_send, enumerated, visited,
                       failed_users, run_clean, prev_clean, generate_calls,
                       engines, call_vars>>

handle_like == \E u \in UserIds, l \in FeedbackListingIds : HandleFeedback(u, l, TRUE)

handle_dislike == \E u \in UserIds, l \in FeedbackListingIds : HandleFeedback(u, l, FALSE)

(***************************************************************************)
(* SpecFeedback: callbacks arriving in any order for two users over four    *)
(* analyzed listings and one listing id that has no row.  The learning rate *)
(* is any value Settings accepts (0 <= rate <= 1); the first user starts    *)
(* with any of the stored vectors, the second with none.                    *)
(***************************************************************************)
AcceptedRates == {0, feedback_learning_rate, Scale \div 2, Scale}

FeedbackVectors ==
    {PyNone, PyList(<<>>), PyList(<<0, 0>>), PyList(<<300, 400>>),
     PyStr(<<"[", "3", ",", "4", "]">>), PyStr(<<"[", "-3", ",", "-4", "]">>)}

FeedbackListings ==
    {[ListingRow(1) EXCEPT !.embedding_vector = PyList(<<400, 300>>)],
     [ListingRow(2) EXCEPT !.embedding_vector = PyStr(<<"[", "1", ",", "3", ",", "4", "]">>)],
     [ListingRow(3) EXCEPT !.embedding_vector = PyList(<<300, 400, 0>>)],
     [ListingRow(5) EXCEPT !.id = 4]}

InitFeedback ==
    /\ \E v \in FeedbackVectors :
           users = [u \in UserIds |->
                       [UserRow(u, 1) EXCEPT !.preference_vector =
                            IF u = 1 THEN v ELSE PyNone]]
    /\ listings = FeedbackListings
    /\ EngineIdle
    /\ user_feedback = [p \in FeedbackPairs |-> <<>>]
    /\ learning_rate \in AcceptedRates
    /\ callbacks = 0
    /\ last_callback = NoCallback
    /\ NoCall

NextFeedback == handle_like \/ handle_dislike

SpecFeedback == InitFeedback /\ [][NextFeedback]_vars

(***************************************************************************)
(* Properties of the feedback handlers (specification SpecFeedback).        *)
(***************************************************************************)
CallbackStep == callbacks' = callbacks + 1

\* C14: for a user with no current preference vector (null or empty), a
\* like on a listing that has an embedding vector stores exactly that
\* vector, and a dislike stores nothing: the vector stays null or empty,
\* hence also after any run of dislikes.
NoVectorLikeAdoptsDislikeKeepsNone ==
    [][\A u \in UserIds :
           (/\ CallbackStep
            /\ last_callback'.user_id = u
            /\ ~Truthy(users[u].preference_vector))
           => LET target == FeedbackTarget(listings, last_callback'.listing_id)
              IN  /\ (last_callback'.is_like /\ Truthy(target))
                         => users'[u].preference_vector = target
                  /\ ~last_callback'.is_like
                         => users'[u].preference_vector = users[u].preference_vector]_vars

\* a second dislike in a row, on a listing with a vector, recorded for a
\* user who still has no vector
DislikesLeftNoVector ==
    \E u \in UserIds :
        /\ last_callback = [user_id |-> u, listing_id |-> 1, is_like |-> FALSE,
                            outcome |-> "recorded"]
        /\ users[u].total_likes = 0
        /\ users[u].total_dislikes >= 2
        /\ ~Truthy(users[u].preference_vector)

\* squared Euclidean distance of two lists of the same length
Dist2(v, w) == SeqSum([i \in 1..Len(v) |-> (v[i] - w[i]) * (v[i] - w[i])])

\* C15: whatever learning rate the configuration accepted, a like whose
\* target differs from the user's vector (both lists of the same length)
\* leaves the vector strictly closer to the target and not equal to it.
LikeStrictlyApproachesTarget ==
    [][\A u \in UserIds :
           LET cur == users[u].preference_vector
               target == FeedbackTarget(listings, last_callback'.listing_id)
           IN  (/\ CallbackStep
                /\ last_callback'.user_id = u
                /\ last_callback'.is_like
                /\ cur.tag = "list" /\ target.tag = "list"
                /\ Len(cur.list) > 0
                /\ Len(cur.list) = Len(target.list)
                /\ cur.list # target.list)
               => /\ users'[u].preference_vector.tag = "list"
                  /\ users'[u].preference_vector.list # target.list
                  /\ Dist2(users'[u].preference_vector.list, target.list)
                         < Dist2(cur.list, target.list)]_vars

\* the number of components of a stored vector, None when it has none
VectorDim(v) ==
    IF v.tag = "list" THEN Len(v.list)
    ELSE IF v.tag = "str" /\ json_loads(v.text).ok /\ json_loads(v.text).val.tag = "list"
         THEN Len(json_loads(v.text).val.list)
    ELSE None

\* C16: a feedback event whose listing has no usable vector, or whose
\* listing vector differs in length from the stored preference vector,
\* leaves the preference vector as it was, and the feedback row is still
\* written and the counter of its polarity still raised.
UnusableTargetOnlyRecords ==
    [][\A u \in UserIds :
           LET cur == users[u].preference_vector
               l == last_callback'.listing_id
               target == FeedbackTarget(listings, l)
           IN  (/\ CallbackStep
                /\ last_callback'.user_id = u
                /\ \/ ~Truthy(target)
                   \/ /\ Truthy(cur)
                      /\ VectorDim(cur) # None /\ VectorDim(target) # None
                      /\ VectorDim(cur) # VectorDim(target))
               => /\ users'[u].preference_vector = cur
                  /\ user_feedback'[<<u, l>>] = <<FeedbackType(last_callback'.is_like)>>
                  /\ IF last_callback'.is_like
                     THEN users'[u].total_likes = users[u].total_likes + 1
                     ELSE users'[u].total_dislikes = users[u].total_dislikes + 1]_vars

\* C17: after any sequence of callbacks the feedback table holds at most
\* one row per (user, listing) pair, and the row of the pair of the latest
\* callback carries that callback's polarity.
OneRowPerPairLatestPolarity ==
    /\ \A p \in FeedbackPairs : Len(user_feedback[p]) <= 1
    /\ callbacks > 0 =>
           user_feedback[<<last_callback.user_id, last_callback.listing_id>>]
               = <<FeedbackType(last_callback.is_like)>>

(***************************************************************************)
(* SpecRationale: PersonalizedMatchAnalyzer.generate over the answers of    *)
(* the text-generation provider, and the rationale line that                *)
(* UmbralBot.send_listing_notification writes.                              *)
(* A string is modelled by the sentence it was taken from (words), the      *)
(* number of whitespace characters around it (pad) and the number of        *)
(* characters from its first to its last non-whitespace one (core).         *)
(***************************************************************************)
WhyMatchLimit == 420
WarningsLimit == 220
ConclusionLimit == 200

Str(words, pad, core) == [words |-> words, pad |-> pad, core |-> core]

EmptyStr == Str("", 0, 0)

\* str.strip()
Strip(s) == IF s.core = 0 THEN EmptyStr ELSE [s EXCEPT !.pad = 0]

\* s[:n] of a stripped string
Slice(s, n) == IF s.core <= n THEN s ELSE [s EXCEPT !.core = n]

\* "not s" of a string
IsEmpty(s) == s.pad + s.core = 0

\* the sentences generate puts in place of a missing field
GenericWhyMatch == Str("Esta alineada con varias de tus prioridades principales.", 0, 56)
GenericConclusion == Str("Vale revisarla en detalle para validar encaje final.", 0, 52)

\* the sentences generate answers after an exception
FallbackWhyMatch == Str("Tiene buena afinidad con lo que buscas.", 0, 39)
FallbackConclusion == Str("Vale la pena abrir la publicacion y validar los detalles clave.", 0, 63)

\* the sentence send_listing_notification writes without a rationale
GenericAnalysisText == Str("Propiedad compatible con tu perfil. Revisa la publicacion para confirmar detalles.", 0, 82)

PersonalizedAnalysis(why_match, warnings, conclusion) == [why_match |-> why_match, warnings |-> warnings, conclusion |-> conclusion]

\* a value of the JSON object the provider wrote: no such key, null, or a string
JAbsent == [tag |-> "missing", str |-> EmptyStr]
JNull == [tag |-> "None", str |-> EmptyStr]
JStr(s) == [tag |-> "str", str |-> s]

\* str(data.get(key, ""))
StrOfGet(v) == IF v.tag = "missing" THEN EmptyStr ELSE IF v.tag = "None" THEN Str("None", 0, 4) ELSE v.str

\* The provider's text is a sequence of tokens: a code fence, the word
\* json, or a document.
BlankBody == [json |-> "blank", why_match |-> JAbsent, warnings |-> JAbsent, conclusion |-> JAbsent]
MalformedBody == [BlankBody EXCEPT !.json = "malformed"]
FenceToken == [tok |-> "fence", doc |-> BlankBody]
JsonWordToken == [tok |-> "json", doc |-> BlankBody]
DocToken(body) == [tok |-> "doc", doc |-> body]

\* text.split("```")[1]: the tokens between the opening fence and the next
RECURSIVE UpToFence(_)
UpToFence(tokens) == IF tokens = <<>> \/ Head(tokens).tok = "fence" THEN <<>> ELSE <<Head(tokens)>> \o UpToFence(Tail(tokens))

\* The text that reaches json.loads: of an answer that starts with a fence,
\* what stands between the fences without a leading "json".  An answer cut
\* off before its closing fence keeps everything after the opening one.
Unfence(text) ==
    LET inner == IF text # <<>> /\ Head(text).tok = "fence" THEN UpToFence(Tail(text)) ELSE text
        bare == IF text # <<>> /\ Head(text).tok = "fence" /\ inner # <<>> /\ Head(inner).tok = "json" THEN Tail(inner) ELSE inner
    IN  IF bare = <<>> THEN BlankBody
        ELSE IF Len(bare) = 1 /\ bare[1].tok = "doc" THEN bare[1].doc
        ELSE MalformedBody

\* json.loads(text): "dict" for an object, "other" for any other document,
\* "error" for text that is no JSON document (malformed or cut off)
JsonKind(body) == IF body.json \in {"malformed", "truncated"} THEN "error" ELSE IF body.json = "dict" THEN "dict" ELSE "other"

\* generate without the replacement of empty fields
generate_KeepsEmptyFields(context_raises, response) ==
    IF context_raises \/ response.raises
    THEN PersonalizedAnalysis(FallbackWhyMatch, EmptyStr, FallbackConclusion)
    ELSE LET text == Unfence(response.text)
         IN  IF text.json = "blank"
             THEN PersonalizedAnalysis(GenericWhyMatch, EmptyStr, GenericConclusion)
             ELSE IF JsonKind(text) # "dict"
             THEN PersonalizedAnalysis(FallbackWhyMatch, EmptyStr, FallbackConclusion)
             ELSE PersonalizedAnalysis(
                      Slice(Strip(StrOfGet(text.why_match)), WhyMatchLimit),
                      Slice(Strip(StrOfGet(text.warnings)), WarningsLimit),
                      Slice(Strip(StrOfGet(text.conclusion)), ConclusionLimit))

\* PersonalizedMatchAnalyzer.generate.  context_raises: building the prompt
\* raised; response: what the provider did.  Every step is inside the try,
\* whose handler answers the fallback analysis.
generate(context_raises, response) ==
    IF context_raises \/ response.raises
    THEN PersonalizedAnalysis(FallbackWhyMatch, EmptyStr, FallbackConclusion)
    ELSE LET text == Unfence(response.text)
         IN  IF text.json = "blank"
             THEN PersonalizedAnalysis(GenericWhyMatch, EmptyStr, GenericConclusion)
             ELSE IF JsonKind(text) # "dict"
             THEN PersonalizedAnalysis(FallbackWhyMatch, EmptyStr, FallbackConclusion)
             ELSE LET why_match == Strip(StrOfGet(text.why_match))
                      warnings == Strip(StrOfGet(text.warnings))
                      conclusion == Strip(StrOfGet(text.conclusion))
                  IN  PersonalizedAnalysis(
                          Slice(IF IsEmpty(why_match) THEN GenericWhyMatch ELSE why_match, WhyMatchLimit),
                          Slice(warnings, WarningsLimit),
                          Slice(IF IsEmpty(conclusion) THEN GenericConclusion ELSE conclusion, ConclusionLimit))

\* send_listing_notification: the rationale line of the message.
\* personalized_analysis is None or a string.
analysis_text(personalized_analysis) ==
    LET text == IF personalized_analysis.tag = "None" THEN EmptyStr ELSE personalized_analysis.str
    IN  IF IsEmpty(text) THEN GenericAnalysisText ELSE text

\* field values of the provider's JSON object
ProviderStrings == {EmptyStr, Str("", 2, 0), Str("Te cierra por la luz.", 0, 21), Str("Te cierra por la luz.", 1, WhyMatchLimit + 1)}

ProviderFields == {JAbsent, JNull} \cup {JStr(s) : s \in ProviderStrings}

Body(json, why_match, warnings, conclusion) == [json |-> json, why_match |-> why_match, warnings |-> warnings, conclusion |-> conclusion]

\* documents the provider may write: nothing, text that is no JSON, a JSON
\* object cut off by the token limit, a JSON list, or a JSON object
ProviderBodies ==
    {[BlankBody EXCEPT !.json = j] : j \in {"blank", "malformed", "truncated", "list"}}
        \cup {Body("dict", w, x, c) : w \in ProviderFields, x \in {JAbsent, JStr(EmptyStr)}, c \in ProviderFields}

\* the document alone, between fences, between fences after the word json,
\* after an opening fence that is never closed, or after the word json
Layouts(body) ==
    {<<DocToken(body)>>,
     <<FenceToken, DocToken(body), FenceToken>>,
     <<FenceToken, JsonWordToken, DocToken(body), FenceToken>>,
     <<FenceToken, JsonWordToken, DocToken(body)>>,
     <<JsonWordToken, DocToken(body)>>}

ProviderResponses ==
    {[raises |-> r, text |-> t] : r \in BooleanSet, t \in {<<>>, <<FenceToken, FenceToken>>}}
        \cup {[raises |-> FALSE, text |-> t] : t \in UNION {Layouts(b) : b \in ProviderBodies}}

SuppliedRationales == {JNull, JStr(EmptyStr), JStr(Str("Te cierra por la luz.", 0, 21))}

InitRationale ==
    /\ IdleCycle
    /\ \E c \in BooleanSet, r \in ProviderResponses, p \in SuppliedRationales :
           h_args = [context_raises |-> c, response |-> r, personalized_analysis |-> p]
    /\ h_done = FALSE
    /\ h_result = <<>>

ApplyRationale ==
    /\ ~h_done
    /\ h_done' = TRUE
    /\ h_result' = [analysis |-> generate(h_args.context_raises, h_args.response),
                    analysis_text |-> analysis_text(h_args.personalized_analysis)]
    /\ UNCHANGED <<cycle_vars, h_args>>

SpecRationale == InitRationale /\ [][ApplyRationale]_vars

\* C18: whatever the text-generation step does (provider exception, empty
\* text, malformed or truncated JSON, empty fields), generate answers an
\* analysis whose why_match and conclusion are not empty, and
\* send_listing_notification writes the generic sentence when it is handed
\* no rationale (None or the empty string).
RationaleNeverEmpty ==
    h_done =>
        /\ ~IsEmpty(h_result.analysis.why_match)
        /\ ~IsEmpty(h_result.analysis.conclusion)
        /\ h_result.analysis.why_match.core <= WhyMatchLimit
        /\ ~IsEmpty(h_result.analysis_text)
        /\ IsEmpty(StrOfGet(h_args.personalized_analysis)) \/ h_args.personalized_analysis = JNull
               => h_result.analysis_text = GenericAnalysisText

\* C18 witness: the provider's JSON was cut off, generate answered the
\* fallback analysis, and the notification without rationale carries the
\* generic sentence.
TruncatedJsonGotFallback ==
    /\ h_done
    /\ ~h_args.response.raises
    /\ \E i \in DOMAIN h_args.response.text : h_args.response.text[i].doc.json = "truncated"
    /\ h_result.analysis.why_match = FallbackWhyMatch
    /\ h_args.personalized_analysis = JNull
    /\ h_result.analysis_text = GenericAnalysisText

(***************************************************************************)
(* Further properties of the matching cycle (specification Spec).           *)
(***************************************************************************)

\* a step of the notification loop in which the message reached the user
Dispatch == pc = "notify" /\ delivered' # delivered

\* thresholds on the raw similarity, in thousandths, not above the
\* threshold on the final score
PersonalizationThresholds == 0..(similarity_threshold \div 10)

\* C19: for some personalization threshold, every dispatched match whose
\* raw similarity exceeds it had PersonalizedMatchAnalyzer.generate called
\* for it before the dispatch, and no match at or below it had.
RationaleGeneratedAboveThreshold ==
    [][Dispatch =>
           \E t \in PersonalizationThresholds :
               (Head(matches).similarity_score > t) <=> (CurrentPair \in generate_calls)]_vars

\* C20: a step that counts an error while a user is being handled leaves
\* that user without any notification delivered in the cycle.
ErrorCountedMeansNothingDelivered ==
    [][(pc \in {"user", "notify"} /\ stats'.errors > stats.errors)
           => cycle_delivered'[Head(active_users).id] = 0]_vars

(***************************************************************************)
(* SpecPause: the matching cycle next to the bot's /pausar and /reanudar    *)
(* commands, which the bot process handles at any moment of a cycle.        *)
(***************************************************************************)
\* UserRepository.set_active
set_active(user_table, u, is_active) == [user_table EXCEPT ![u].is_active = is_active]

SetActive(u, is_active) ==
    /\ users' = set_active(users, u, is_active)
    /\ UNCHANGED <<listings, feedback_vars, generate_calls, engines, sent_notifications, pc,
                   active_users, matches, stats, exit_code, cycles, faults,
                   delivered, cycle_delivered, last_send, enumerated, visited,
                   failed_users, run_clean, prev_clean, call_vars>>

\* UmbralBot._pause_notifications
pause_notifications == \E u \in UserIds : SetActive(u, FALSE)

\* UmbralBot._resume_notifications
resume_notifications == \E u \in UserIds : SetActive(u, TRUE)

NextPause == Next \/ pause_notifications \/ resume_notifications

\* both users active and onboarded, or still onboarding
InitPause ==
    /\ \E kind \in [UserIds -> {1, 5}] :
           CycleInit([u \in UserIds |-> UserRow(u, kind[u])])
    /\ NoCall

SpecPause == InitPause /\ [][NextPause]_vars

\* C21: the users a cycle enumerates are those active and onboarded in the
\* store at that moment, and every notification of the cycle goes to one of
\* them; so a user paused when the cycle started gets none in it, whatever
\* is paused or resumed while the cycle runs.
DispatchOnlyToEnumeratedActiveUsers ==
    [][/\ (cycles' # cycles /\ pc' # "failed") =>
              enumerated' = {u \in UserIds : users[u].is_active /\ users[u].onboarding_completed}
       /\ Dispatch => /\ Head(active_users).id \in enumerated
                      /\ enumerated' = enumerated
       /\ \A u \in UserIds : cycle_delivered'[u] > 0 => u \in enumerated']_vars

\* C21 witness: a cycle has run to its end after the first user paused, the
\* first user got nothing and the second user got a notification.
PausedUserSkipped ==
    /\ pc = "done"
    /\ ~users[1].is_active
    /\ 1 \notin enumerated
    /\ cycle_delivered[1] = 0
    /\ cycle_delivered[2] > 0
    /\ \E l \in ListingIds : delivered[<<1, l>>] > 0

(***************************************************************************)
(* SpecConcurrent: several matching cycles started without a lock (two      *)
(* scheduled runs overlapping) work on the same user.  Each cycle is a      *)
(* process of its own; the store calls of find_matches_for_user and of the  *)
(* notification loop are the points at which the cycles interleave:         *)
(* search_by_filters, one was_sent read for each candidate,                 *)
(* send_listing_notification, notification_repo.create.                     *)
(***************************************************************************)
EngineIds == 1..ConcurrentCycles

ConcurrentUser == users[1]

InitConcurrent ==
    /\ CycleInit([u \in UserIds |-> UserRow(u, 2)])
    /\ NoCall

\* what the concurrent cycles leave alone
concurrent_frame == <<users, listings, feedback_vars, generate_calls, pc, active_users, matches, stats, exit_code, cycles, cycle_delivered, last_send, enumerated, visited, failed_users, run_clean, prev_clean, call_vars>>

Running(e) == engines[e].pc \notin {"idle", "done"}

\* process_new_listings up to the candidate fetch of find_matches_for_user
ConcurrentStart(e) ==
    /\ engines[e].pc = "idle"
    /\ LET hard == RebuildPreferences(ConcurrentUser).hard_filters
           fetched == search_by_filters(listings, hard.neighborhoods, hard.min_price_usd,
                          hard.max_price_usd, hard.min_rooms, hard.max_rooms, MatchLimit * 2)
       IN  engines' = [engines EXCEPT ![e] =
               [@ EXCEPT !.pc = IF fetched = <<>> THEN "done" ELSE "check",
                         !.fetched = fetched,
                         !.overlapped = \E o \in EngineIds \ {e} : Running(o)]]
    /\ UNCHANGED <<sent_notifications, delivered, faults, concurrent_frame>>

\* Step 2 for one candidate: the was_sent read and the requirement checks;
\* after the last candidate, step 3 and the cut, which read no store.
ConcurrentCheck(e) ==
    /\ engines[e].pc = "check"
    /\ LET prefs == RebuildPreferences(ConcurrentUser)
           results == engines[e].results \o
                          FilterCandidates(<<Head(engines[e].fetched)>>, sent_notifications,
                                           ConcurrentUser.id, prefs.hard_filters)
           rest == Tail(engines[e].fetched)
           found == Take(RankMatches(results,
                             ParsePreferenceVector(ConcurrentUser.preference_vector),
                             prefs.soft_preferences), MatchLimit)
       IN  engines' = [engines EXCEPT ![e] =
               IF rest # <<>>
               THEN [@ EXCEPT !.fetched = rest, !.results = results]
               ELSE [@ EXCEPT !.fetched = rest, !.results = results, !.matches = found,
                              !.pc = IF found = <<>> THEN "done" ELSE "send"]]
    /\ UNCHANGED <<sent_notifications, delivered, faults, concurrent_frame>>

EnginePair(e) == <<ConcurrentUser.id, Head(engines[e].matches).listing_id>>

EngineNextMatch(e, record) ==
    [engines[e] EXCEPT !.matches = Tail(@),
                       !.pc = IF Len(engines[e].matches) > 1 THEN "send" ELSE "done",
                       !.sent_here = IF record THEN Append(@, EnginePair(e)[2]) ELSE @]

\* send_listing_notification delivers the message and returns True
ConcurrentSend(e) ==
    /\ engines[e].pc = "send"
    /\ delivered' = [delivered EXCEPT ![EnginePair(e)] = @ + 1]
    /\ engines' = [engines EXCEPT ![e] = [@ EXCEPT !.pc = "record", !.sent_here = Append(@, EnginePair(e)[2])]]
    /\ UNCHANGED <<sent_notifications, faults, concurrent_frame>>

\* send_listing_notification returns False: nothing delivered, no row
ConcurrentSendFails(e) ==
    /\ engines[e].pc = "send"
    /\ faults < MaxFaults
    /\ faults' = faults + 1
    /\ engines' = [engines EXCEPT ![e] = EngineNextMatch(e, FALSE)]
    /\ UNCHANGED <<sent_notifications, delivered, concurrent_frame>>

\* notification_repo.create writes the row
ConcurrentRecord(e) ==
    /\ engines[e].pc = "record"
    /\ sent_notifications' = sent_notifications \cup {EnginePair(e)}
    /\ engines' = [engines EXCEPT ![e] = EngineNextMatch(e, FALSE)]
    /\ UNCHANGED <<delivered, faults, concurrent_frame>>

\* notification_repo.create raises after the delivery: no row
ConcurrentRecordFails(e) ==
    /\ engines[e].pc = "record"
    /\ faults < MaxFaults
    /\ faults' = faults + 1
    /\ engines' = [engines EXCEPT ![e] = EngineNextMatch(e, FALSE)]
    /\ UNCHANGED <<sent_notifications, delivered, concurrent_frame>>

NextConcurrent ==
    \E e \in EngineIds :
        \/ ConcurrentStart(e)
        \/ ConcurrentCheck(e)
        \/ ConcurrentSend(e)
        \/ ConcurrentSendFails(e)
        \/ ConcurrentRecord(e)
        \/ ConcurrentRecordFails(e)

SpecConcurrent == InitConcurrent /\ [][NextConcurrent]_vars

DeliveriesBy(e, l) == Cardinality({i \in 1..Len(engines[e].sent_here) : engines[e].sent_here[i] = l})

\* C22: each of the k cycles delivers a (user, listing) pair at most once,
\* a pair is delivered at most k times in all, and at most once when no
\* cycle started while another was running.
AtMostOncePerCycleOnceWithoutOverlap ==
    \A l \in ListingIds :
        /\ \A e \in EngineIds : DeliveriesBy(e, l) <= 1
        /\ delivered[<<ConcurrentUser.id, l>>] <= ConcurrentCycles
        /\ (\A e \in EngineIds : ~engines[e].overlapped)
               => delivered[<<ConcurrentUser.id, l>>] <= 1

(***************************************************************************)
(* SpecPipeline: find_matches_for_user and the notification loop for one    *)
(* user, statement by statement, with a log of what was done to which       *)
(* listing.                                                                 *)
(***************************************************************************)
PipelineSent == {{<<1, l>> : l \in ids} : ids \in SUBSET {1, 7, NumListings}}

Event(ev, id) == [ev |-> ev, id |-> id]

PipelineStart == [pc |-> "fetch", fetched |-> <<>>, results |-> <<>>, unscored |-> <<>>, scored |-> <<>>, matches |-> <<>>, returned |-> <<>>, log |-> <<>>]

InitPipeline ==
    /\ IdleCycle
    /\ \E k \in 1..3, sent \in PipelineSent : h_args = [user |-> UserRow(1, k), sent |-> sent]
    /\ h_done = FALSE
    /\ h_result = PipelineStart

PipelineStep(next) ==
    /\ h_result' = next
    /\ h_done' = (next.pc = "done")
    /\ UNCHANGED <<cycle_vars, h_args>>

\* Paso 1: search_by_filters; an empty answer returns []
StepFetch ==
    /\ h_result.pc = "fetch"
    /\ LET hard == RebuildPreferences(h_args.user).hard_filters
           fetched == search_by_filters(listings, hard.neighborhoods, hard.min_price_usd,
                          hard.max_price_usd, hard.min_rooms, hard.max_rooms, MatchLimit * 2)
       IN  PipelineStep([h_result EXCEPT !.fetched = fetched,
                                         !.log = Append(@, Event("fetch", 0)),
                                         !.pc = IF fetched = <<>> THEN "done" ELSE "check"])

\* the loop of Paso 2 appending every candidate
StepCheck_KeepsAll ==
    /\ h_result.pc = "check"
    /\ LET listing == Head(h_result.fetched)
           results == Append(h_result.results, listing)
           rest == Tail(h_result.fetched)
       IN  PipelineStep([h_result EXCEPT !.fetched = rest, !.results = results,
                                         !.unscored = results,
                                         !.log = Append(@, Event("check", listing.id)),
                                         !.pc = IF rest # <<>> THEN "check" ELSE "score"])

\* Paso 2, one turn of the loop: was_sent and the requirement checks of one
\* candidate; after the last one, no kept candidate returns []
StepCheck ==
    /\ h_result.pc = "check"
    /\ LET listing == Head(h_result.fetched)
           results == h_result.results \o
                          FilterCandidates(<<listing>>, h_args.sent, h_args.user.id,
                                           RebuildPreferences(h_args.user).hard_filters)
           rest == Tail(h_result.fetched)
       IN  PipelineStep([h_result EXCEPT !.fetched = rest, !.results = results,
                                         !.unscored = results,
                                         !.log = Append(@, Event("check", listing.id)),
                                         !.pc = IF rest # <<>> THEN "check"
                                                ELSE IF results = <<>> THEN "done"
                                                ELSE "score"])

\* Paso 3, one turn of the loop: the scores of one kept candidate
StepScore ==
    /\ h_result.pc = "score"
    /\ LET listing == Head(h_result.unscored)
           rest == Tail(h_result.unscored)
       IN  PipelineStep([h_result EXCEPT
               !.unscored = rest,
               !.scored = Append(@, ScoreListing(listing,
                              ParsePreferenceVector(h_args.user.preference_vector),
                              RebuildPreferences(h_args.user).soft_preferences)),
               !.log = Append(@, Event("score", listing.id)),
               !.pc = IF rest # <<>> THEN "score" ELSE "sort"])

\* the sort left out
StepSort_KeepsOrder ==
    /\ h_result.pc = "sort"
    /\ PipelineStep([h_result EXCEPT !.matches = h_result.scored,
                                     !.log = Append(@, Event("sort", 0)),
                                     !.pc = "threshold"])

\* matches.sort(key=final_score, reverse=True)
StepSort ==
    /\ h_result.pc = "sort"
    /\ PipelineStep([h_result EXCEPT !.matches = SortByFinalScoreDesc(h_result.scored),
                                     !.log = Append(@, Event("sort", 0)),
                                     !.pc = "threshold"])

\* matches = [m for m in matches if m.final_score >= threshold]
StepThreshold ==
    /\ h_result.pc = "threshold"
    /\ PipelineStep([h_result EXCEPT !.matches = AboveThreshold(@),
                                     !.log = Append(@, Event("threshold", 0)),
                                     !.pc = "truncate"])

\* return matches[:limit]
StepTruncate ==
    /\ h_result.pc = "truncate"
    /\ LET cut == Take(h_result.matches, MatchLimit)
       IN  PipelineStep([h_result EXCEPT !.matches = cut, !.returned = cut,
                                         !.log = Append(@, Event("truncate", 0)),
                                         !.pc = IF cut = <<>> THEN "done" ELSE "dispatch"])

\* the notification loop, one match
StepDispatch ==
    /\ h_result.pc = "dispatch"
    /\ PipelineStep([h_result EXCEPT !.matches = Tail(@),
                                     !.log = Append(@, Event("dispatch", Head(h_result.matches).listing_id)),
                                     !.pc = IF Len(h_result.matches) > 1 THEN "dispatch" ELSE "done"])

NextPipeline ==
    \/ StepFetch
    \/ StepCheck
    \/ StepScore
    \/ StepSort
    \/ StepThreshold
    \/ StepTruncate
    \/ StepDispatch

SpecPipeline == InitPipeline /\ [][NextPipeline]_vars

\* the place of a kind of event in the pipeline
StageOf(ev) ==
    CASE ev = "fetch" -> 0
      [] ev = "check" -> 1
      [] ev = "score" -> 2
      [] ev = "sort" -> 3
      [] ev = "threshold" -> 4
      [] ev = "truncate" -> 5
      [] ev = "dispatch" -> 6

LogIds(ev) == {h_result.log[i].id : i \in {j \in 1..Len(h_result.log) : h_result.log[j].ev = ev}}

\* C23: in one user's pipeline every was_sent and hard-filter check comes
\* before any score, only unsent admissible candidates are scored, the
\* threshold and the cut come after the sort, and the dispatches after the
\* cut, of returned matches only.
ChecksBeforeScoresCutBeforeDispatch ==
    /\ \A i, j \in 1..Len(h_result.log) :
           i < j => StageOf(h_result.log[i].ev) <= StageOf(h_result.log[j].ev)
    /\ \A l \in LogIds("score") :
           /\ l \in LogIds("check")
           /\ ~was_sent(h_args.sent, h_args.user.id, l)
           /\ PassesRequirements(SelectRow(ListingRow(l)), RebuildPreferences(h_args.user).hard_filters)
    /\ LogIds("dispatch") \subseteq {h_result.returned[i].listing_id : i \in 1..Len(h_result.returned)}
    /\ h_done => h_result.returned = UserMatches(listings, h_args.sent, h_args.user)

\* C23 witness: the pipeline ended with a dispatch, having checked without
\* scoring a listing that was already sent and one that fails a requirement.
SentAndInadmissibleNeverScored ==
    /\ h_done
    /\ LogIds("dispatch") # {}
    /\ \E l \in LogIds("check") \ LogIds("score") : was_sent(h_args.sent, h_args.user.id, l)
    /\ \E l \in LogIds("check") \ LogIds("score") :
           ~PassesRequirements(SelectRow(ListingRow(l)), RebuildPreferences(h_args.user).hard_filters)

\* the scored candidates at or above the threshold
QualifyingScored == {i \in 1..Len(h_result.scored) : h_result.scored[i].final_score >= similarity_threshold}

ReturnedIds == {h_result.returned[i].listing_id : i \in 1..Len(h_result.returned)}

stop_after_attempt == 3

Callers == {"run_analysis", "onboarding", "rationale"}

\* the attempts the caller's provider call is given
AttemptLimit(caller) == IF caller = "rationale" THEN 1 ELSE stop_after_attempt

\* retrying for ever
Exhausted_Never(attempts, limit) == FALSE

\* stop=stop_after_attempt(n): no further attempt after the n-th failed
Exhausted(attempts, limit) == attempts >= limit

RetryStart == [pc |-> "calling", attempts |-> 0, outcome |-> "none", embedding |-> PyNone, listing_kept |-> FALSE, onboarding_step |-> 3, onboarding_state |-> "WAITING_DESCRIPTION", why_match |-> EmptyStr]

InitRetry ==
    /\ IdleCycle
    /\ \E c \in Callers, plan \in [1..ProviderCalls -> {"ok", "raise"}] :
           h_args = [caller |-> c, plan |-> plan]
    /\ h_done = FALSE
    /\ h_result = [RetryStart EXCEPT !.listing_kept = (h_args.caller = "run_analysis")]

RetryStep(next) ==
    /\ h_result' = next
    /\ h_done' = (next.pc = "done")
    /\ UNCHANGED <<cycle_vars, h_args>>

\* the provider answers: the caller goes on with the embedding or the text
AttemptSucceeds ==
    /\ h_result.pc = "calling"
    /\ h_result.attempts < ProviderCalls
    /\ h_args.plan[h_result.attempts + 1] = "ok"
    /\ RetryStep([h_result EXCEPT
           !.attempts = @ + 1,
           !.pc = "done",
           !.outcome = "ok",
           !.embedding = IF h_args.caller = "rationale" THEN @ ELSE PyList(<<3, 4>>),
           !.onboarding_step = IF h_args.caller = "onboarding" THEN 4 ELSE @,
           !.onboarding_state = IF h_args.caller = "onboarding" THEN "WAITING_NEIGHBORHOODS_OPTIONAL" ELSE @,
           !.why_match = IF h_args.caller = "rationale" THEN Str("Te cierra por la luz.", 0, 21) ELSE @])

\* the provider raises: the attempt is repeated after the wait, or the
\* exception leaves the call when the attempts are used up
AttemptFails ==
    /\ h_result.pc = "calling"
    /\ h_result.attempts < ProviderCalls
    /\ h_args.plan[h_result.attempts + 1] = "raise"
    /\ RetryStep([h_result EXCEPT
           !.attempts = @ + 1,
           !.pc = IF Exhausted(h_result.attempts + 1, AttemptLimit(h_args.caller))
                  THEN "raised" ELSE "calling"])

\* the caller's except: the listing row stays as created, without
\* embedding; the conversation stays at the description prompt; the
\* rationale is the fallback analysis
Degrade ==
    /\ h_result.pc = "raised"
    /\ RetryStep([h_result EXCEPT
           !.pc = "done",
           !.outcome = "degraded",
           !.why_match = IF h_args.caller = "rationale" THEN FallbackWhyMatch ELSE @])

NextRetry == AttemptSucceeds \/ AttemptFails \/ Degrade

SpecRetry == InitRetry /\ [][NextRetry]_vars

\* C24: a provider call is attempted at most 3 times (once for the
\* rationale), and when the attempts are used up the caller goes on
\* degraded: the listing kept without embedding, the onboarding at the
\* description prompt, the rationale the fallback text.
BoundedAttemptsThenDegrade ==
    /\ h_result.attempts <= AttemptLimit(h_args.caller)
    /\ h_result.attempts <= stop_after_attempt
    /\ (\A i \in 1..AttemptLimit(h_args.caller) : h_args.plan[i] = "raise")
           => (h_result.pc = "done" => h_result.outcome = "degraded")
    /\ (h_done /\ h_result.outcome = "degraded") =>
           CASE h_args.caller = "run_analysis" ->
                    h_result.listing_kept /\ h_result.embedding = PyNone
             [] h_args.caller = "onboarding" ->
                    /\ h_result.onboarding_state = "WAITING_DESCRIPTION"
                    /\ h_result.onboarding_step = 3
             [] h_args.caller = "rationale" ->
                    h_result.why_match = FallbackWhyMatch

\* C24 witness: the embedding of the onboarding description failed three
\* times and the conversation is back at the description prompt.
OnboardingDegradedAfterThreeAttempts ==
    /\ h_done
    /\ h_args.caller = "onboarding"
    /\ h_result.attempts = stop_after_attempt
    /\ h_result.outcome = "degraded"
    /\ h_result.onboarding_state = "WAITING_DESCRIPTION"

\* a dislike handled for user u whose vector and target are lists of the
\* same length
DislikeStep(u) ==
    /\ CallbackStep
    /\ last_callback'.user_id = u
    /\ ~last_callback'.is_like
    /\ users[u].preference_vector.tag = "list"
    /\ FeedbackTarget(listings, last_callback'.listing_id).tag = "list"
    /\ Len(users[u].preference_vector.list) > 0
    /\ Len(users[u].preference_vector.list)
           = Len(FeedbackTarget(listings, last_callback'.listing_id).list)

DeliveredInCycle(d) == d[1] + d[2]

\* C27: the statistics a cycle returns satisfy notifications_sent <=
\* matches_found <= 5 * users_processed and users_processed <= enumerated
\* users, and within a cycle notifications_sent grows exactly with the
\* sent-notification rows written and with the notifications delivered.
StatsCountRowsAndDeliveries ==
    [][/\ pc' = "done" =>
              /\ stats'.notifications_sent <= stats'.matches_found
              /\ stats'.matches_found <= MatchLimit * stats'.users_processed
              /\ stats'.users_processed <= Cardinality(enumerated')
       /\ cycles' = cycles =>
              /\ stats'.notifications_sent - stats.notifications_sent
                     = Cardinality(sent_notifications' \ sent_notifications)
              /\ stats'.notifications_sent - stats.notifications_sent
                     = DeliveredInCycle(cycle_delivered') - DeliveredInCycle(cycle_delivered)]_vars


(***************************************************************************)
(* The feedback counters against the feedback table (SpecFeedback).         *)
(***************************************************************************)
FeedbackRows(u, feedback_type) ==
    Cardinality({l \in FeedbackListingIds : user_feedback[<<u, l>>] = <<feedback_type>>})

\* C30: after any sequence of like and dislike callbacks, re-submissions
\* and polarity changes on one listing included, total_likes of a user is
\* the number of the user's feedback rows of type like and total_dislikes
\* the number of type dislike.
CountersMatchFeedbackRows ==
    \A u \in UserIds :
        /\ users[u].total_likes = FeedbackRows(u, "like")
        /\ users[u].total_dislikes = FeedbackRows(u, "dislike")


(***************************************************************************)
(* SpecOnboarding: the onboarding conversation of one user in the bot       *)
(* process next to the matching cycle, which is a process of its own and    *)
(* reads the users table whenever it starts.  Each handler of the           *)
(* conversation is one step.  h_result holds the conversation: its state in *)
(* the ConversationHandler ("none" before /start, "END" after it ended),    *)
(* the handler's _temp_data entry, and whether _complete_onboarding has     *)
(* saved the answers of this conversation.  The onboarding_step column is   *)
(* read by nothing and is left out of the row.                              *)
(***************************************************************************)
OnboardingUser == 1

\* OnboardingHandler._get_temp_data: the entry a conversation starts with
TempDefaults ==
    [max_price_usd |-> None, min_rooms |-> None, neighborhoods |-> {},
     requires_balcony |-> FALSE, ideal_description |-> PyNone, embedding |-> PyNone]

NoConversation == [state |-> "none", temp |-> TempDefaults, persisted |-> FALSE]

\* UserRepository.update_onboarding_step
update_onboarding_step(user_table, u, step) ==
    [user_table EXCEPT ![u].onboarding_completed = (step >= 5)]

\* UserRepository.update_preferences
update_preferences(user_table, u, preferences) ==
    [user_table EXCEPT ![u].preferences = preferences]

\* UserRepository.update_preference_vector
update_preference_vector(user_table, u, vector) ==
    [user_table EXCEPT ![u].preference_vector = vector]

\* UserRepository.complete_onboarding
complete_onboarding(user_table, u) ==
    [user_table EXCEPT ![u].onboarding_completed = TRUE]

\* the UserPreferences _complete_onboarding builds from the temporary data
CollectedPreferences(data) ==
    [hard_filters |-> [HardDefaults EXCEPT !.max_price_usd = data.max_price_usd,
                                           !.min_rooms = data.min_rooms,
                                           !.neighborhoods = data.neighborhoods,
                                           !.requires_balcony = data.requires_balcony],
     soft_preferences |-> SoftDefaults]

\* data.get("embedding") or []
CollectedVector(data) ==
    IF Truthy(data.embedding) THEN data.embedding ELSE PyList(<<>>)

\* OnboardingHandler._complete_onboarding: the three writes, in order
OnboardingHandler_complete_onboarding(user_table, u, data) ==
    complete_onboarding(
        update_preference_vector(
            update_preferences(user_table, u, CollectedPreferences(data)),
            u, CollectedVector(data)),
        u)

onboarding_frame == <<listings, feedback_vars, generate_calls, engines, sent_notifications, pc, active_users, matches, stats, exit_code, cycles, faults, delivered, cycle_delivered, last_send, enumerated, visited, failed_users, run_clean, prev_clean, h_args, h_done>>

\* one handler: it runs in state from, leaves the conversation in state to
\* with the temporary data data, and the users table as user_table
Converse(from, to, data, user_table) ==
    /\ h_result.state = from
    /\ h_result' = [h_result EXCEPT !.state = to, !.temp = data]
    /\ users' = user_table
    /\ UNCHANGED onboarding_frame

\* OnboardingHandler.start: a user already onboarded is sent away, another
\* user starts a conversation with fresh temporary data
start ==
    /\ h_result.state \in {"none", "END"}
    /\ h_result' = IF users[OnboardingUser].onboarding_completed
                   THEN [h_result EXCEPT !.state = "END"]
                   ELSE [state |-> "WAITING_OPERATION", temp |-> TempDefaults,
                         persisted |-> FALSE]
    /\ h_result' # h_result
    /\ UNCHANGED <<users, onboarding_frame>>

handle_operation_type ==
    Converse("WAITING_OPERATION", "WAITING_BUDGET", h_result.temp,
             update_onboarding_step(users, OnboardingUser, 1))

handle_budget ==
    \E budget \in {None, 1000} :
        Converse("WAITING_BUDGET", "WAITING_ROOMS",
                 [h_result.temp EXCEPT !.max_price_usd = budget],
                 update_onboarding_step(users, OnboardingUser, 2))

handle_rooms ==
    \E rooms \in {None, 2} :
        Converse("WAITING_ROOMS", "WAITING_DESCRIPTION",
                 [h_result.temp EXCEPT !.min_rooms = rooms],
                 update_onboarding_step(users, OnboardingUser, 3))

\* the description is stored, then extraction and embedding succeed
handle_ideal_description ==
    Converse("WAITING_DESCRIPTION", "WAITING_NEIGHBORHOODS_OPTIONAL",
             [h_result.temp EXCEPT !.ideal_description = PyStr(<<"d">>),
                                   !.embedding = PyList(<<3, 4>>)],
             update_onboarding_step(users, OnboardingUser, 4))

\* the description is stored, then the embedding call raises: the user is
\* asked again
handle_ideal_description_Raises ==
    /\ h_result.temp.ideal_description = PyNone
    /\ Converse("WAITING_DESCRIPTION", "WAITING_DESCRIPTION",
                [h_result.temp EXCEPT !.ideal_description = PyStr(<<"d">>)], users)

handle_neighborhoods_optional ==
    \/ Converse("WAITING_NEIGHBORHOODS_OPTIONAL", "WAITING_MUST_HAVES",
                [h_result.temp EXCEPT !.neighborhoods = {}],
                update_onboarding_step(users, OnboardingUser, 5))
    \/ Converse("WAITING_NEIGHBORHOODS_OPTIONAL", "WAITING_NEIGHBORHOODS",
                h_result.temp, users)

handle_neighborhood ==
    \/ \E action \in {"done", "todos"} :
           Converse("WAITING_NEIGHBORHOODS", "WAITING_MUST_HAVES",
                    IF action = "todos"
                    THEN [h_result.temp EXCEPT !.neighborhoods = {}]
                    ELSE h_result.temp,
                    update_onboarding_step(users, OnboardingUser, 5))
    \/ \E action \in {"Palermo"} :
           Converse("WAITING_NEIGHBORHOODS", "WAITING_NEIGHBORHOODS",
                    [h_result.temp EXCEPT !.neighborhoods =
                         IF action \in @ THEN @ \ {action} ELSE @ \cup {action}],
                    users)

\* a requirement toggled, or the answers confirmed or skipped: step 6 is
\* written and _complete_onboarding saves the answers and ends the
\* conversation
handle_must_haves ==
    \/ Converse("WAITING_MUST_HAVES", "WAITING_MUST_HAVES",
                [h_result.temp EXCEPT !.requires_balcony = ~@], users)
    \/ \E action \in {"done", "skip"} :
           LET data == IF action = "skip"
                       THEN [h_result.temp EXCEPT !.requires_balcony = FALSE]
                       ELSE h_result.temp
           IN  /\ h_result.state = "WAITING_MUST_HAVES"
               /\ users' = OnboardingHandler_complete_onboarding(
                               update_onboarding_step(users, OnboardingUser, 6),
                               OnboardingUser, data)
               /\ h_result' = [state |-> "END", temp |-> TempDefaults,
                               persisted |-> TRUE]
               /\ UNCHANGED onboarding_frame

\* OnboardingHandler.cancel: the fallback of every state of the conversation
cancel ==
    /\ h_result.state \notin {"none", "END"}
    /\ h_result' = [h_result EXCEPT !.state = "END", !.temp = TempDefaults]
    /\ UNCHANGED <<users, onboarding_frame>>

\* the first user has just been created by get_or_create, the second user
\* finished onboarding earlier
InitOnboarding ==
    /\ CycleInit([u \in UserIds |-> UserRow(u, IF u = OnboardingUser THEN 5 ELSE 1)])
    /\ h_args = <<>>
    /\ h_done = FALSE
    /\ h_result = NoConversation

NextOnboarding ==
    \/ Next
    \/ start
    \/ handle_operation_type
    \/ handle_budget
    \/ handle_rooms
    \/ handle_ideal_description
    \/ handle_ideal_description_Raises
    \/ handle_neighborhoods_optional
    \/ handle_neighborhood
    \/ handle_must_haves
    \/ cancel

SpecOnboarding == InitOnboarding /\ [][NextOnboarding]_vars

\* C28: the user's row says onboarding_completed only once the hard
\* filters, soft preferences and vector collected in the conversation have
\* been saved by _complete_onboarding; so a matching cycle starting during
\* the conversation does not enumerate the user before that.
CompletedOnlyAfterAnswersPersisted ==
    [][/\ users'[OnboardingUser].onboarding_completed => h_result'.persisted
       /\ (cycles' # cycles /\ OnboardingUser \in enumerated')
              => h_result'.persisted]_vars


(***************************************************************************)
(* SpecForever: the scheduler starts one matching cycle after another,      *)
(* forever, over users and listings that do not change; every send is       *)
(* delivered and every row written.  The cycle counter is left alone, so    *)
(* that the cycles never run out.  Fairness: the scheduled job starts the   *)
(* next cycle and a started cycle runs to its end.                          *)
(***************************************************************************)
StartCycleAgain ==
    /\ CycleIdle
    /\ stats' = ZeroStats
    /\ active_users' = get_active_users(users)
    /\ enumerated' = {active_users'[i].id : i \in 1..Len(active_users')}
    /\ matches' = <<>>
    /\ IF active_users' = <<>>
       THEN pc' = "done" /\ exit_code' = 0
       ELSE pc' = "user" /\ exit_code' = None
    /\ run_clean' = TRUE
    /\ ResetHistory
    /\ UNCHANGED <<Data, sent_notifications, cycles, faults, delivered, call_vars>>

NextForever ==
    \/ StartCycleAgain
    \/ ProcessUser
    \/ SendDelivered
    \/ ReturnStats

\* weak fairness of ProcessUser, its enabling condition written out: the
\* loop does not stay at a user forever
ProcessUserFair == []<>(pc # "user") \/ []<><<ProcessUser>>_vars

SpecForever == Init /\ [][NextForever]_vars /\ WF_vars(StartCycleAgain) /\ WF_vars(SendDelivered) /\ WF_vars(ReturnStats) /\ ProcessUserFair

\* the listing passes the user's hard filters and its final score reaches
\* the threshold
QualifiesFor(user, l) ==
    LET prefs == RebuildPreferences(user)
        hard == prefs.hard_filters
        row == CHOOSE r \in listings : r.id = l
    IN  /\ CoarseFilter(row, hard.neighborhoods, hard.min_price_usd,
                        hard.max_price_usd, hard.min_rooms, hard.max_rooms)
        /\ PassesRequirements(SelectRow(row), hard)
        /\ RankMatches(<<SelectRow(row)>>,
                       ParsePreferenceVector(user.preference_vector),
                       prefs.soft_preferences) # <<>>

\* every listing that passes the hard filters of an active, onboarded user
\* and reaches the threshold has been notified to that user
AllQualifyingNotified ==
    \A u \in UserIds : \A l \in ListingIds :
        (/\ users[u].is_active
         /\ users[u].onboarding_completed
         /\ QualifiesFor(users[u], l)) => <<u, l>> \in sent_notifications

\* C29: with cycles repeated forever and every send and record succeeding,
\* every listing that passes a user's hard filters and reaches the
\* threshold is eventually notified to that user, however many qualify.
EveryQualifyingListingEventuallyNotified == <>AllQualifyingNotified

=============================================================================
